---- MODULE Spec2Model ----
(***************************************************************************)
(* Scheduling engine of gantt-pert-visualizer: the calculatePertData and   *)
(* calculateGanttData variants of src/lib/pert.ts and src/lib/gantt.ts.    *)
(*                                                                         *)
(* A task is a record; an optional field of the Task interface holds       *)
(* Undefined (the empty tuple) or Some(v) (the one-element tuple <<v>>).   *)
(* Task ids are modelled as positive integers (their order is the order    *)
(* of the id strings).  A computation works on a "heap": the task objects  *)
(* in the order of the list that was passed in; a sorted list is a         *)
(* sequence of heap positions, so that the aliasing between the sorted     *)
(* list, the taskMap and the caller's list is the one of the code.         *)
(***************************************************************************)
EXTENDS Integers, Sequences, FiniteSets

VARIABLES tasks, result, outcome, callee, errors, errorTaskIds,
          appState, diagramType, diagramData, error, isTransitioning,
          timers, handler, called, build, chart

engineVars == <<result, outcome, callee, errors, errorTaskIds, chart>>

pageVars ==
  <<appState, diagramType, diagramData, error, isTransitioning, timers,
    handler, called, build>>

vars == <<tasks, engineVars, pageVars>>

\* ---------------------------------------------------------------- bounds
MaxTasks == 3
MaxDur == 2
\* longest list among the unvalidated inputs
MaxAnyTasks == 3
\* size of the lists a form submits to the page, pending transition timers
MaxPageTasks == 1
MaxTimers == 2
\* longest list of the task form
MaxFormTasks == 2

\* ------------------------------------------------------- optional values
Undefined == <<>>
Some(v) == <<v>>

\* `x || 0` and `x ?? 0` on an optional number (both give 0 for 0)
OrZero(x) == IF x = Undefined THEN 0 ELSE x[1]

\* `x || d` on an optional number: 0 is falsy
OrElse(x, d) == IF x = Undefined THEN d ELSE IF x[1] = 0 THEN d ELSE x[1]

\* `x ?? d` on an optional number: only undefined is replaced
Nullish(x, d) == IF x = Undefined THEN d ELSE x[1]

\* Math.abs
Abs(x) == IF x < 0 THEN 0 - x ELSE x

\* Math.max() of no argument is -Infinity and Math.min() is Infinity: kept
\* below and above every time value
NegInfinity == 0 - 1000000

PosInfinity == 1000000

\* Math.max(...xs) and Math.min(...xs) of a sequence of numbers
RECURSIVE MathMax(_)
MathMax(xs) ==
  IF Len(xs) = 0 THEN NegInfinity
  ELSE IF Len(xs) = 1 THEN xs[1]
  ELSE LET m == MathMax(Tail(xs)) IN IF xs[1] >= m THEN xs[1] ELSE m

RECURSIVE MathMin(_)
MathMin(xs) ==
  IF Len(xs) = 0 THEN PosInfinity
  ELSE IF Len(xs) = 1 THEN xs[1]
  ELSE LET m == MathMin(Tail(xs)) IN IF xs[1] <= m THEN xs[1] ELSE m

\* ------------------------------------------------------------ Task type
NewTask(id, name, duration, predecessors) ==
  [id |-> id, name |-> name, duration |-> duration,
   predecessors |-> predecessors,
   start |-> Undefined, end |-> Undefined,
   earliestStart |-> Undefined, earliestFinish |-> Undefined,
   latestStart |-> Undefined, latestFinish |-> Undefined,
   slack |-> Undefined, isCritical |-> Undefined]

\* ------------------------------------------------------ input task lists
\* the ascending sequence of a finite set of integers
RECURSIVE SortedSeq(_)
SortedSeq(S) ==
  IF S = {} THEN <<>>
  ELSE LET m == CHOOSE x \in S : \A y \in S : x <= y
       IN <<m>> \o SortedSeq(S \ {m})

Permutations(n) ==
  {f \in [1..n -> 1..n] : \A i, j \in 1..n : i # j => f[i] # f[j]}

\* the list orders tried for a list of n tasks: every order for a list of
\* up to three tasks, the ascending and the descending order of the ids for
\* a longer one
ListOrders(n) ==
  IF n <= 3 THEN Permutations(n)
  ELSE {[k \in 1..n |-> k], [k \in 1..n |-> n + 1 - k]}

\* acyclic, referentially sound predecessor relations on ids 1..n, up to
\* renaming of the ids: every predecessor id is smaller than the task's id
PredChoices(n) ==
  SUBSET {e \in (1..n) \X (1..n) : e[1] < e[2]}

\* the task list with ids perm[1], ..., perm[n] in that order, where the
\* task with id i lasts dur[i] and waits for the ids j with <<j, i>> in edges
InputList(n, perm, dur, edges) ==
  [k \in 1..n |->
     NewTask(perm[k], "task", dur[perm[k]],
             SortedSeq({j \in 1..n : <<j, perm[k]>> \in edges}))]

\* ------------------------------------------- unvalidated input lists
\* predecessor relations on ids 1..n with cycles and self-references: every
\* relation for up to three tasks, the relations along the ring 1, 2, ..., n,
\* 1 (in both directions) for more
AnyPredChoices(n) ==
  IF n <= 3 THEN SUBSET ((1..n) \X (1..n))
  ELSE SUBSET {e \in (1..n) \X (1..n) :
                 e[2] = (e[1] % n) + 1 \/ e[1] = (e[2] % n) + 1}

\* what a caller may have got wrong in one task of a list
Defects ==
  {"none", "danglingPredecessor", "duplicateId", "zeroDuration",
   "negativeDuration", "emptyName", "emptyId", "repeatedPredecessor"}

\* the list l with the defect put into task k (j names the task whose id is
\* taken for a duplicate id, or the predecessor entry that is repeated); the
\* id Len(l) + 1 belongs to no task
WithDefect(l, defect, k, j) ==
  CASE defect = "none" -> l
    [] defect = "repeatedPredecessor" ->
         IF j <= Len(l[k].predecessors)
         THEN [l EXCEPT ![k].predecessors = Append(@, @[j])]
         ELSE l
    [] defect = "danglingPredecessor" ->
         [l EXCEPT ![k].predecessors = Append(@, Len(l) + 1)]
    [] defect = "duplicateId" -> [l EXCEPT ![k].id = l[j].id]
    [] defect = "zeroDuration" -> [l EXCEPT ![k].duration = 0]
    [] defect = "negativeDuration" -> [l EXCEPT ![k].duration = 0 - 1]
    [] defect = "emptyName" -> [l EXCEPT ![k].name = ""]
    [] defect = "emptyId" -> [l EXCEPT ![k].id = 0]

\* ------------------------------------------------------- shared helpers
Range(s) == {s[i] : i \in 1..Len(s)}

\* the identity order on a heap
Identity(heap) == [i \in 1..Len(heap) |-> i]

\* taskMap built by `list.forEach(task => taskMap.set(task.id, task))` over
\* the positions `order`: the position of the last task with that id, 0 if
\* the map has no such key
TaskMapGet(heap, order, id) ==
  LET hits == {k \in 1..Len(order) : heap[order[k]].id = id}
  IN IF hits = {} THEN 0
     ELSE order[CHOOSE k \in hits : \A l \in hits : l <= k]

\* keys of such a map in insertion order (first occurrence of each id)
MapKeys(heap, order) ==
  LET ids == [k \in 1..Len(order) |-> heap[order[k]].id]
      first(k) == \A l \in 1..(k - 1) : ids[l] # ids[k]
      RECURSIVE keep(_)
      keep(k) == IF k > Len(ids) THEN <<>>
                 ELSE (IF first(k) THEN <<ids[k]>> ELSE <<>>) \o keep(k + 1)
  IN keep(1)

\* all (predecessor id, task id) pairs in the order of
\* `tasks.forEach(task => task.predecessors.forEach(predId => ...))`
RECURSIVE EdgeList(_, _, _)
EdgeList(heap, order, k) ==
  IF k > Len(order) THEN <<>>
  ELSE LET t == heap[order[k]]
       IN [e \in 1..Len(t.predecessors) |-> <<t.predecessors[e], t.id>>]
          \o EdgeList(heap, order, k + 1)

\* the successor ids pushed for predecessor id p, in push order
PushedSuccessors(edges, p) ==
  LET mine == SelectSeq(edges, LAMBDA e : e[1] = p)
  IN [i \in 1..Len(mine) |-> mine[i][2]]

\* --------------------------------------------------------- Kahn's loop
\* `successors.forEach(successorId => { newDegree = inDegree - 1; set;
\*  if (newDegree === 0) queue.push(successorId) })`
RECURSIVE ReduceSuccessors(_, _, _, _)
ReduceSuccessors(succs, i, inDegree, queue) ==
  IF i > Len(succs) THEN [inDegree |-> inDegree, queue |-> queue]
  ELSE LET s == succs[i]
           newDegree == (IF s \in DOMAIN inDegree THEN inDegree[s] ELSE 0) - 1
           deg1 == [x \in DOMAIN inDegree \cup {s} |->
                      IF x = s THEN newDegree ELSE inDegree[x]]
       IN ReduceSuccessors(succs, i + 1, deg1,
                           IF newDegree = 0 THEN Append(queue, s) ELSE queue)

\* `while (queue.length > 0) { currentId = queue.shift(); result.push(...) }`
\* adj maps an id to its pushed successors; the result is a list of ids
RECURSIVE KahnLoop(_, _, _, _)
KahnLoop(adj, queue, inDegree, sorted) ==
  IF queue = <<>> THEN sorted
  ELSE LET currentId == Head(queue)
           r == ReduceSuccessors(adj[currentId], 1, inDegree, Tail(queue))
       IN KahnLoop(adj, r.queue, r.inDegree, Append(sorted, currentId))

\* ----------------------------- pert.ts, third variant (lines 944-1235)
\* mutant of topologicalSortCorrect: the tasks are returned in input order
topologicalSortCorrect_inputOrder(heap) ==
  [threw |-> FALSE,
   message |-> "Cycle detecte dans les dependances des taches",
   order |-> Identity(heap)]

\* topologicalSortCorrect: returns [threw, order]; order lists heap positions
topologicalSortCorrect(heap) ==
  LET all == Identity(heap)
      keys == MapKeys(heap, all)
      has(id) == TaskMapGet(heap, all, id) # 0
      edges == SelectSeq(EdgeList(heap, all, 1), LAMBDA e : has(e[1]))
      adjList == [id \in Range(keys) |-> PushedSuccessors(edges, id)]
      inDegree == [id \in Range(keys) |->
                     Len(SelectSeq(edges, LAMBDA e : e[2] = id))]
      queue == SelectSeq(keys, LAMBDA id : inDegree[id] = 0)
      sorted == KahnLoop(adjList, queue, inDegree, <<>>)
  IN [threw |-> Len(sorted) # Len(heap),
      message |-> "Cycle detecte dans les dependances des taches",
      order |-> [k \in 1..Len(sorted) |-> TaskMapGet(heap, all, sorted[k])]]

\* mutant of earliestStartOf: the earliest predecessor decides
earliestStartOf_min(heap, order, task) ==
  LET finishOf(predId) ==
        LET p == TaskMapGet(heap, order, predId)
        IN IF p = 0 THEN 0 ELSE OrZero(heap[p].earliestFinish)
  IN IF Len(task.predecessors) = 0 THEN 0
     ELSE MathMin([e \in 1..Len(task.predecessors) |->
                     finishOf(task.predecessors[e])])

\* calculateForwardPass, lines 983-992: the earliestStart given to a task
earliestStartOf(heap, order, task) ==
  LET finishOf(predId) ==
        LET p == TaskMapGet(heap, order, predId)
        IN IF p = 0 THEN 0 ELSE OrZero(heap[p].earliestFinish)
  IN IF Len(task.predecessors) = 0 THEN 0
     ELSE MathMax([e \in 1..Len(task.predecessors) |->
                     finishOf(task.predecessors[e])])

\* calculateForwardPass: the forEach, at the task at position order[k]
RECURSIVE calculateForwardPass(_, _, _)
calculateForwardPass(heap, order, k) ==
  IF k > Len(order) THEN heap
  ELSE LET i == order[k]
           task == heap[i]
           es == earliestStartOf(heap, order, task)
       IN calculateForwardPass(
            [heap EXCEPT ![i].earliestStart = Some(es),
                         ![i].earliestFinish = Some(es + task.duration)],
            order, k + 1)

\* mutant of ProjectEnd: the project ends with its first finished task
ProjectEnd_min(heap, order) ==
  MathMin([k \in 1..Len(order) |-> OrZero(heap[order[k]].earliestFinish)])

\* `Math.max(...tasks.map(t => t.earliestFinish || 0))`
ProjectEnd(heap, order) ==
  MathMax([k \in 1..Len(order) |-> OrZero(heap[order[k]].earliestFinish)])

\* mutant of latestStartOf: the duration is not subtracted
latestStartOf_noDuration(latestFinish, task) == OrZero(Some(latestFinish))

\* calculateBackwardPass, line 1037:
\* `task.latestStart = (task.latestFinish || 0) - task.duration`
latestStartOf(latestFinish, task) == OrZero(Some(latestFinish)) - task.duration

\* calculateBackwardPass: `[...tasks].reverse().forEach`, k counts down
RECURSIVE BackwardLoop(_, _, _, _, _)
BackwardLoop(heap, order, k, edges, projectEnd) ==
  IF k < 1 THEN heap
  ELSE LET i == order[k]
           task == heap[i]
           successors == PushedSuccessors(edges, task.id)
           startOf(succId) ==
             LET s == TaskMapGet(heap, order, succId)
             IN IF s = 0 THEN projectEnd
                ELSE OrElse(heap[s].latestStart, projectEnd)
           lf == IF Len(successors) = 0 THEN projectEnd
                 ELSE MathMin([e \in 1..Len(successors) |->
                                 startOf(successors[e])])
       IN BackwardLoop(
            [heap EXCEPT ![i].latestFinish = Some(lf),
                         ![i].latestStart = Some(latestStartOf(lf, task))],
            order, k - 1, edges, projectEnd)

calculateBackwardPass(heap, order) ==
  LET has(id) == TaskMapGet(heap, order, id) # 0
      edges == SelectSeq(EdgeList(heap, order, 1), LAMBDA e : has(e[1]))
  IN BackwardLoop(heap, order, Len(order), edges, ProjectEnd(heap, order))

\* `Math.abs(slack) < 0.001` (0.001 is also the default toleranceSlack of
\* PertCalculator), written on integers as 1000 * |slack| < 1
ToleranceDenominator == 1000

\* mutant of WithinTolerance: a tolerance of a whole day
WithinTolerance_wholeDay(slack) == Abs(slack) <= 1

WithinTolerance(slack) == ToleranceDenominator * Abs(slack) < 1

RECURSIVE calculateSlackAndCriticalPath(_, _, _)
calculateSlackAndCriticalPath(heap, order, k) ==
  IF k > Len(order) THEN heap
  ELSE LET i == order[k]
           task == heap[i]
           slack == OrZero(task.latestStart) - OrZero(task.earliestStart)
       IN calculateSlackAndCriticalPath(
            [heap EXCEPT ![i].slack = Some(slack),
                         ![i].isCritical = Some(WithinTolerance(slack)),
                         ![i].start = task.earliestStart,
                         ![i].end = task.earliestFinish],
            order, k + 1)

\* mutant of CriticalFilter: the filter is dropped
CriticalFilter_all(sortedTasks) ==
  [k \in 1..Len(sortedTasks) |-> sortedTasks[k].id]

\* `sortedTasks.filter(task => task.isCritical).map(task => task.id)`
CriticalFilter(sortedTasks) ==
  LET crit == SelectSeq(sortedTasks, LAMBDA t : t.isCritical = Some(TRUE))
  IN [k \in 1..Len(crit) |-> crit[k].id]

\* calculatePertData (deep copy, Kahn): [threw, message, heap, data]
NoData == [tasks |-> <<>>, criticalPath |-> <<>>, projectDuration |-> 0]

calculatePertDataKahn(input) ==
  LET workingTasks == input
      srt == topologicalSortCorrect(workingTasks)
      h1 == calculateForwardPass(workingTasks, srt.order, 1)
      h2 == calculateBackwardPass(h1, srt.order)
      h3 == calculateSlackAndCriticalPath(h2, srt.order, 1)
      sortedTasks == [k \in 1..Len(srt.order) |-> h3[srt.order[k]]]
  IN IF srt.threw
     THEN [threw |-> TRUE, message |-> srt.message, data |-> NoData]
     ELSE [threw |-> FALSE, message |-> "",
           data |-> [tasks |-> sortedTasks,
                     criticalPath |-> CriticalFilter(sortedTasks),
                     projectDuration |-> ProjectEnd(h3, srt.order)]]

\* stable `xs.sort((a, b) => a.key - b.key)` (Array.prototype.sort is
\* stable) on a list of [key, val] pairs: insertion after the last element
\* whose key is not larger
RECURSIVE StableSort(_)
StableSort(xs) ==
  IF Len(xs) <= 1 THEN xs
  ELSE LET n == Len(xs)
           front == StableSort(SubSeq(xs, 1, n - 1))
           x == xs[n]
           later == {j \in 1..Len(front) : front[j].key > x.key}
           at == IF later = {} THEN Len(front) + 1
                 ELSE CHOOSE j \in later : \A l \in later : j <= l
       IN SubSeq(front, 1, at - 1) \o <<x>> \o SubSeq(front, at, Len(front))

\* mutant of pertValidateTasksThrows: only negative durations are refused
pertValidateTasksThrows_negativeOnly(input) ==
  \E i \in 1..Len(input) :
     \/ input[i].id = 0
     \/ \E j \in 1..(i - 1) : input[j].id = input[i].id
     \/ input[i].name = ""
     \/ input[i].duration < 0

\* ------------------- pert.ts, first variant (lines 1-497): PertCalculator
\* validateTasks of pert.ts: TRUE iff it throws 'Validation echouee'.  An
\* id is a positive integer here; 0 stands for the empty (falsy) id and ""
\* for the empty name.
pertValidateTasksThrows(input) ==
  \E i \in 1..Len(input) :
     \/ input[i].id = 0
     \/ \E j \in 1..(i - 1) : input[j].id = input[i].id
     \/ input[i].name = ""
     \/ input[i].duration <= 0

\* initializeMaps: predecessorsMap.get(id), a copy of the predecessors of
\* the last task with that id
PredecessorsMapGet(heap, id) ==
  heap[TaskMapGet(heap, Identity(heap), id)].predecessors

\* mutant of SuccessorsMapGet: a task is pushed to a predecessor's successors
\* only once however often it lists the predecessor
SuccessorsMapGet_pushedOnce(heap, id) ==
  LET all == Identity(heap)
      has(x) == TaskMapGet(heap, all, x) # 0
      pushed == PushedSuccessors(
                  SelectSeq(EdgeList(heap, all, 1), LAMBDA e : has(e[1])), id)
      firsts == {e \in 1..Len(pushed) : \A l \in 1..(e - 1) : pushed[l] # pushed[e]}
      at == SortedSeq(firsts)
  IN [e \in 1..Len(at) |-> pushed[at[e]]]

\* initializeMaps: successorsMap.get(id); a predecessor id is pushed to only
\* if successorsMap has it
SuccessorsMapGet(heap, id) ==
  LET all == Identity(heap)
      has(x) == TaskMapGet(heap, all, x) # 0
  IN PushedSuccessors(SelectSeq(EdgeList(heap, all, 1), LAMBDA e : has(e[1])), id)

\* mutant of PertCalculator_topologicalSort: the length check of lines
\* 99-104 is left out
PertCalculator_topologicalSort_noCycleCheck(heap) ==
  LET all == Identity(heap)
      keys == MapKeys(heap, all)
      inDegree == [id \in Range(keys) |-> Len(PredecessorsMapGet(heap, id))]
      successorsMap == [id \in Range(keys) |-> SuccessorsMapGet(heap, id)]
      queue == SelectSeq(keys, LAMBDA id : inDegree[id] = 0)
      sorted == KahnLoop(successorsMap, queue, inDegree, <<>>)
  IN [threw |-> FALSE,
      message |-> "Cycle detecte dans les dependances",
      remainingTasks |-> <<>>,
      order |-> [k \in 1..Len(sorted) |-> TaskMapGet(heap, all, sorted[k])]]

\* PertCalculator.topologicalSort
PertCalculator_topologicalSort(heap) ==
  LET all == Identity(heap)
      keys == MapKeys(heap, all)
      inDegree == [id \in Range(keys) |-> Len(PredecessorsMapGet(heap, id))]
      successorsMap == [id \in Range(keys) |-> SuccessorsMapGet(heap, id)]
      queue == SelectSeq(keys, LAMBDA id : inDegree[id] = 0)
      sorted == KahnLoop(successorsMap, queue, inDegree, <<>>)
  IN [threw |-> Len(sorted) # Len(keys),
      message |-> "Cycle detecte dans les dependances",
      remainingTasks |-> SelectSeq(keys, LAMBDA id : id \notin Range(sorted)),
      order |-> [k \in 1..Len(sorted) |-> TaskMapGet(heap, all, sorted[k])]]

\* PertCalculator.calculateForwardPass
RECURSIVE PertCalculator_calculateForwardPass(_, _, _)
PertCalculator_calculateForwardPass(heap, order, k) ==
  IF k > Len(order) THEN heap
  ELSE LET i == order[k]
           task == heap[i]
           predecessors == PredecessorsMapGet(heap, task.id)
           finishOf(predId) ==
             LET p == TaskMapGet(heap, Identity(heap), predId)
             IN IF p = 0 THEN 0 ELSE Nullish(heap[p].earliestFinish, 0)
           es == IF Len(predecessors) = 0 THEN 0
                 ELSE MathMax([e \in 1..Len(predecessors) |->
                                 finishOf(predecessors[e])])
       IN PertCalculator_calculateForwardPass(
            [heap EXCEPT ![i].earliestStart = Some(es),
                         ![i].earliestFinish = Some(es + task.duration)],
            order, k + 1)

\* mutant of PertCalculator_projectEnd: the last sorted task ends the project
PertCalculator_projectEnd_last(heap, order) ==
  Nullish(heap[order[Len(order)]].earliestFinish, 0)

\* `Math.max(...sortedTasks.map(t => t.earliestFinish ?? 0))`
PertCalculator_projectEnd(heap, order) ==
  MathMax([k \in 1..Len(order) |-> Nullish(heap[order[k]].earliestFinish, 0)])

\* mutant of PertCalculator_latestFinishOf: max and min swapped
PertCalculator_latestFinishOf_max(heap, task, projectEnd) ==
  LET successors == SuccessorsMapGet(heap, task.id)
      startOf(succId) ==
        LET s == TaskMapGet(heap, Identity(heap), succId)
        IN IF s = 0 THEN projectEnd
           ELSE Nullish(heap[s].latestStart, projectEnd)
  IN IF Len(successors) = 0 THEN projectEnd
     ELSE MathMax([e \in 1..Len(successors) |-> startOf(successors[e])])

\* PertCalculator.calculateBackwardPass, lines 139-150: the latestFinish
\* given to a task
PertCalculator_latestFinishOf(heap, task, projectEnd) ==
  LET successors == SuccessorsMapGet(heap, task.id)
      startOf(succId) ==
        LET s == TaskMapGet(heap, Identity(heap), succId)
        IN IF s = 0 THEN projectEnd
           ELSE Nullish(heap[s].latestStart, projectEnd)
  IN IF Len(successors) = 0 THEN projectEnd
     ELSE MathMin([e \in 1..Len(successors) |-> startOf(successors[e])])

\* PertCalculator.calculateBackwardPass: the reversed forEach
RECURSIVE PertCalculator_backwardLoop(_, _, _, _)
PertCalculator_backwardLoop(heap, order, k, projectEnd) ==
  IF k < 1 THEN heap
  ELSE LET i == order[k]
           task == heap[i]
           lf == PertCalculator_latestFinishOf(heap, task, projectEnd)
       IN PertCalculator_backwardLoop(
            [heap EXCEPT ![i].latestFinish = Some(lf),
                         ![i].latestStart = Some(lf - task.duration)],
            order, k - 1, projectEnd)

PertCalculator_calculateBackwardPass(heap, order) ==
  PertCalculator_backwardLoop(heap, order, Len(order),
                              PertCalculator_projectEnd(heap, order))

\* PertCalculator.calculateSlackAndCriticalPath, the forEach
RECURSIVE PertCalculator_slackLoop(_, _, _)
PertCalculator_slackLoop(heap, order, k) ==
  IF k > Len(order) THEN heap
  ELSE LET i == order[k]
           task == heap[i]
           slack == Nullish(task.latestStart, 0) - Nullish(task.earliestStart, 0)
       IN PertCalculator_slackLoop(
            [heap EXCEPT ![i].slack = Some(slack),
                         ![i].isCritical = Some(WithinTolerance(slack)),
                         ![i].start = task.earliestStart,
                         ![i].end = task.earliestFinish],
            order, k + 1)

\* mutant of orderCriticalPath: the comparator is written b - a
orderCriticalPath_descending(criticalTaskIds, sortedTasks) ==
  LET criticalTasks ==
        SelectSeq(sortedTasks, LAMBDA t : t.id \in Range(criticalTaskIds))
      byStart == StableSort([k \in 1..Len(criticalTasks) |->
                               [key |-> 0 - Nullish(criticalTasks[k].earliestStart, 0),
                                val |-> criticalTasks[k]]])
  IN [k \in 1..Len(byStart) |-> byStart[k].val.id]

\* PertCalculator.orderCriticalPath on the annotated sorted list
orderCriticalPath(criticalTaskIds, sortedTasks) ==
  LET criticalTasks ==
        SelectSeq(sortedTasks, LAMBDA t : t.id \in Range(criticalTaskIds))
      byStart == StableSort([k \in 1..Len(criticalTasks) |->
                               [key |-> Nullish(criticalTasks[k].earliestStart, 0),
                                val |-> criticalTasks[k]]])
  IN [k \in 1..Len(byStart) |-> byStart[k].val.id]

\* mutant of calculatePertDataCalculator: the sorter checks for a cycle only
\* after the forward pass has run over what it could sort
calculatePertDataCalculator_lateCycleCheck(input) ==
  LET srt == PertCalculator_topologicalSort(input)
      h1 == PertCalculator_calculateForwardPass(input, srt.order, 1)
      h2 == PertCalculator_calculateBackwardPass(h1, srt.order)
      h3 == PertCalculator_slackLoop(h2, srt.order, 1)
      sortedTasks == [k \in 1..Len(srt.order) |-> h3[srt.order[k]]]
      criticalTaskIds == CriticalFilter(sortedTasks)
  IN IF Len(input) = 0
     THEN [threw |-> TRUE, message |-> "Aucune tache fournie", named |-> <<>>,
           heap |-> input, data |-> NoData]
     ELSE IF pertValidateTasksThrows(input)
     THEN [threw |-> TRUE, message |-> "Validation echouee", named |-> <<>>,
           heap |-> input, data |-> NoData]
     ELSE IF srt.threw
     THEN [threw |-> TRUE, message |-> srt.message,
           named |-> srt.remainingTasks, heap |-> h1, data |-> NoData]
     ELSE [threw |-> FALSE, message |-> "", named |-> <<>>, heap |-> h3,
           data |-> [tasks |-> sortedTasks,
                     criticalPath |-> orderCriticalPath(criticalTaskIds, sortedTasks),
                     projectDuration |-> PertCalculator_projectEnd(h3, srt.order)]]

\* calculatePertData (PertCalculator): works on the caller's own objects,
\* so the heap it leaves behind is the caller's list; `named` holds the ids
\* that the message of a thrown error lists (`remainingTasks.join(', ')`)
calculatePertDataCalculator(input) ==
  LET srt == PertCalculator_topologicalSort(input)
      h1 == PertCalculator_calculateForwardPass(input, srt.order, 1)
      h2 == PertCalculator_calculateBackwardPass(h1, srt.order)
      h3 == PertCalculator_slackLoop(h2, srt.order, 1)
      sortedTasks == [k \in 1..Len(srt.order) |-> h3[srt.order[k]]]
      criticalTaskIds == CriticalFilter(sortedTasks)
  IN IF Len(input) = 0
     THEN [threw |-> TRUE, message |-> "Aucune tache fournie", named |-> <<>>,
           heap |-> input, data |-> NoData]
     ELSE IF pertValidateTasksThrows(input)
     THEN [threw |-> TRUE, message |-> "Validation echouee", named |-> <<>>,
           heap |-> input, data |-> NoData]
     ELSE IF srt.threw
     THEN [threw |-> TRUE, message |-> srt.message,
           named |-> srt.remainingTasks, heap |-> input, data |-> NoData]
     ELSE [threw |-> FALSE, message |-> "", named |-> <<>>, heap |-> h3,
           data |-> [tasks |-> sortedTasks,
                     criticalPath |-> orderCriticalPath(criticalTaskIds, sortedTasks),
                     projectDuration |-> PertCalculator_projectEnd(h3, srt.order)]]

\* ------------------------------------------------- gantt.ts, both variants
\* dfs of topologicalSort: st = [visited, temp, result]; result lists heap
\* positions; `result.unshift(task)` puts the task in front
RECURSIVE dfs(_, _, _)
RECURSIVE VisitPredecessors(_, _, _, _)
dfs(heap, st, taskId) ==
  IF taskId \in st.visited THEN st
  ELSE IF taskId \in st.temp THEN st
  ELSE LET p == TaskMapGet(heap, Identity(heap), taskId)
           st1 == [st EXCEPT !.temp = @ \cup {taskId}]
           st2 == IF p # 0
                  THEN VisitPredecessors(heap, st1, heap[p].predecessors, 1)
                  ELSE st1
       IN [visited |-> st2.visited \cup {taskId},
           temp |-> st2.temp \ {taskId},
           result |-> IF p # 0 THEN <<p>> \o st2.result ELSE st2.result]

VisitPredecessors(heap, st, preds, e) ==
  IF e > Len(preds) THEN st
  ELSE VisitPredecessors(
         heap,
         IF TaskMapGet(heap, Identity(heap), preds[e]) # 0
         THEN dfs(heap, st, preds[e]) ELSE st,
         preds, e + 1)

\* `list.forEach(task => { if (!visited.has(task.id)) dfs(task.id) })`
RECURSIVE DfsEach(_, _, _, _)
DfsEach(heap, st, ids, k) ==
  IF k > Len(ids) THEN st
  ELSE DfsEach(heap, dfs(heap, st, ids[k]), ids, k + 1)

IdsOf(heap) == [i \in 1..Len(heap) |-> heap[i].id]

NoVisit == [visited |-> {}, temp |-> {}, result |-> <<>>]

\* topologicalSort of the first variant (lines 44-110): root tasks first
topologicalSort(heap) ==
  LET rootTasks == SelectSeq(heap, LAMBDA t : Len(t.predecessors) = 0)
      rootIds == [k \in 1..Len(rootTasks) |-> rootTasks[k].id]
      st1 == IF Len(rootTasks) = 0 /\ Len(heap) > 0
             THEN dfs(heap, NoVisit, heap[1].id)
             ELSE DfsEach(heap, NoVisit, rootIds, 1)
  IN DfsEach(heap, st1, IdsOf(heap), 1).result

\* topologicalSort of the second variant (lines 258-309)
topologicalSortSinglePass(heap) ==
  DfsEach(heap, NoVisit, IdsOf(heap), 1).result

\* calculateEarliestTimes (lines 116-142)
RECURSIVE calculateEarliestTimes(_, _, _)
calculateEarliestTimes(heap, order, k) ==
  IF k > Len(order) THEN heap
  ELSE LET i == order[k]
           task == heap[i]
           finishOf(predId) ==
             LET p == TaskMapGet(heap, order, predId)
             IN IF p = 0 THEN 0 ELSE OrZero(heap[p].earliestFinish)
           es == IF Len(task.predecessors) = 0 THEN 0
                 ELSE MathMax([e \in 1..Len(task.predecessors) |->
                                 finishOf(task.predecessors[e])])
       IN calculateEarliestTimes(
            [heap EXCEPT ![i].earliestStart = Some(es),
                         ![i].start = Some(es),
                         ![i].earliestFinish = Some(es + task.duration),
                         ![i].end = Some(es + task.duration)],
            order, k + 1)

\* calculateLatestTimes (lines 148-187); its successorsMap gets a key for
\* every predecessor id, known or not
calculateLatestTimes(heap, order) ==
  BackwardLoop(heap, order, Len(order), EdgeList(heap, order, 1),
               ProjectEnd(heap, order))

\* calculateSlackAndCriticalPath of gantt.ts (lines 194-206)
RECURSIVE ganttSlackAndCriticalPath(_, _, _)
ganttSlackAndCriticalPath(heap, order, k) ==
  IF k > Len(order) THEN heap
  ELSE LET i == order[k]
           task == heap[i]
           slack == OrZero(task.latestStart) - OrZero(task.earliestStart)
       IN ganttSlackAndCriticalPath(
            [heap EXCEPT ![i].slack = Some(slack),
                         ![i].isCritical = Some(WithinTolerance(slack)),
                         ![i].start = IF task.start = Undefined
                                      THEN task.earliestStart ELSE task.start,
                         ![i].end = IF task.end = Undefined
                                    THEN task.earliestFinish ELSE task.end],
            order, k + 1)

\* calculateProjectDuration (lines 213-215): `t.earliestFinish || t.end || 0`
calculateProjectDuration(heap, order) ==
  MathMax([k \in 1..Len(order) |->
             OrElse(heap[order[k]].earliestFinish, OrZero(heap[order[k]].end))])

\* calculateGanttData, forward/backward-pass variant (lines 8-37)
calculateGanttData(input) ==
  LET order == topologicalSort(input)
      h1 == calculateEarliestTimes(input, order, 1)
      h2 == calculateLatestTimes(h1, order)
      h3 == ganttSlackAndCriticalPath(h2, order, 1)
      sortedTasks == [k \in 1..Len(order) |-> h3[order[k]]]
  IN [threw |-> FALSE, message |-> "",
      data |-> [tasks |-> sortedTasks,
                criticalPath |-> CriticalFilter(sortedTasks),
                projectDuration |-> IF Len(order) = 0 THEN NegInfinity
                                    ELSE calculateProjectDuration(h3, order)]]

\* calculateStartAndEndDates (lines 315-338)
RECURSIVE calculateStartAndEndDates(_, _, _)
calculateStartAndEndDates(heap, order, k) ==
  IF k > Len(order) THEN heap
  ELSE LET i == order[k]
           task == heap[i]
           endOf(predId) ==
             LET p == TaskMapGet(heap, order, predId)
             IN IF p = 0 THEN 0 ELSE OrZero(heap[p].end)
           st == IF Len(task.predecessors) = 0 THEN 0
                 ELSE MathMax([e \in 1..Len(task.predecessors) |->
                                 endOf(task.predecessors[e])])
       IN calculateStartAndEndDates(
            [heap EXCEPT ![i].start = Some(st),
                         ![i].end = Some(st + task.duration)],
            order, k + 1)

\* buildCriticalPath of calculateCriticalPath: cp = [visited, criticalPath]
RECURSIVE buildCriticalPath(_, _, _, _)
buildCriticalPath(heap, order, cp, taskId) ==
  IF taskId \in cp.visited THEN cp
  ELSE LET cp1 == [visited |-> cp.visited \cup {taskId},
                   criticalPath |-> Append(cp.criticalPath, taskId)]
           p == TaskMapGet(heap, order, taskId)
           known == SelectSeq(heap[p].predecessors,
                              LAMBDA x : TaskMapGet(heap, order, x) # 0)
           tight == SelectSeq(known,
                      LAMBDA x : OrZero(heap[TaskMapGet(heap, order, x)].end)
                                 = OrZero(heap[p].start))
       IN IF p = 0 THEN cp1
          ELSE IF Len(tight) = 0 THEN cp1
          ELSE buildCriticalPath(heap, order, cp1,
                                 heap[TaskMapGet(heap, order, tight[1])].id)

RECURSIVE BuildEach(_, _, _, _, _)
BuildEach(heap, order, cp, ids, k) ==
  IF k > Len(ids) THEN cp
  ELSE BuildEach(heap, order, buildCriticalPath(heap, order, cp, ids[k]),
                 ids, k + 1)

Reverse(xs) == [k \in 1..Len(xs) |-> xs[Len(xs) + 1 - k]]

\* `Math.max(...tasks.map(t => t.end || 0))`
LastEnd(heap, order) ==
  MathMax([k \in 1..Len(order) |-> OrZero(heap[order[k]].end)])

\* calculateCriticalPath (lines 345-393)
calculateCriticalPath(heap, order) ==
  LET lastEndTime == LastEnd(heap, order)
      sortedTasks == [k \in 1..Len(order) |-> heap[order[k]]]
      endTasks == SelectSeq(sortedTasks, LAMBDA t : t.end = Some(lastEndTime))
      endIds == [k \in 1..Len(endTasks) |-> endTasks[k].id]
      cp == BuildEach(heap, order,
                      [visited |-> {}, criticalPath |-> <<>>], endIds, 1)
  IN Reverse(cp.criticalPath)

\* markCriticalTasks (lines 400-405)
markCriticalTasks(heap, criticalPath) ==
  [i \in 1..Len(heap) |->
     [heap[i] EXCEPT !.isCritical = Some(heap[i].id \in Range(criticalPath))]]

\* assignColors (lines 420-454): `task.predecessors.sort()` reorders the
\* predecessors of the working copy in place; colours are not modelled
assignColors(heap) ==
  [i \in 1..Len(heap) |->
     [heap[i] EXCEPT !.predecessors =
        LET ps == heap[i].predecessors
            srt == StableSort([e \in 1..Len(ps) |-> [key |-> ps[e], val |-> ps[e]]])
        IN [e \in 1..Len(srt) |-> srt[e].val]]]

\* calculateGanttData, single-pass variant (lines 224-251)
calculateGanttDataSinglePass(input) ==
  LET order == topologicalSortSinglePass(input)
      h1 == calculateStartAndEndDates(input, order, 1)
      criticalPath == calculateCriticalPath(h1, order)
      h2 == markCriticalTasks(h1, criticalPath)
      h3 == assignColors(h2)
  IN [threw |-> FALSE, message |-> "",
      data |-> [tasks |-> [k \in 1..Len(order) |-> h3[order[k]]],
                criticalPath |-> IF Len(order) = 0 THEN <<>> ELSE criticalPath,
                projectDuration |-> IF Len(order) = 0 THEN NegInfinity
                                    ELSE LastEnd(h1, order)]]

\* ------------------------------------ utils.ts: validateTasks (95-193)
\* hasCycle of detectCycles: st = [found, visited, recStack]; found is the
\* `return true` that unwinds the whole recursion
RECURSIVE hasCycle(_, _, _)
RECURSIVE HasCycleAmong(_, _, _, _)
hasCycle(heap, st, taskId) ==
  IF taskId \in st.recStack THEN [st EXCEPT !.found = TRUE]
  ELSE IF taskId \in st.visited THEN st
  ELSE LET p == TaskMapGet(heap, Identity(heap), taskId)
           st1 == [st EXCEPT !.visited = @ \cup {taskId},
                             !.recStack = @ \cup {taskId}]
           st2 == IF p # 0
                  THEN HasCycleAmong(heap, st1, heap[p].predecessors, 1)
                  ELSE st1
       IN IF st2.found THEN st2
          ELSE [st2 EXCEPT !.recStack = @ \ {taskId}]

\* `for (const predId of task.predecessors) if (hasCycle(predId)) return true`
HasCycleAmong(heap, st, preds, e) ==
  IF e > Len(preds) THEN st
  ELSE LET s1 == hasCycle(heap, st, preds[e])
       IN IF s1.found THEN s1 ELSE HasCycleAmong(heap, s1, preds, e + 1)

\* `for (const task of tasks) if (hasCycle(task.id)) return '...'`
RECURSIVE DetectEach(_, _, _)
DetectEach(heap, st, k) ==
  IF k > Len(heap) THEN st
  ELSE LET s1 == hasCycle(heap, st, heap[k].id)
       IN IF s1.found THEN s1 ELSE DetectEach(heap, s1, k + 1)

CycleError == "Cycle detecte dans les dependances des taches"

\* detectCycles: the error string, or Undefined for null
detectCycles(heap) ==
  IF DetectEach(heap, [found |-> FALSE, visited |-> {}, recStack |-> {}], 1).found
  THEN Some(CycleError)
  ELSE Undefined

\* the ids that the first forEach of validateTasks has added to taskIds
\* after the tasks 1..k: the non-empty ids (a duplicate is already in)
TaskIdsAfter(heap, k) == {heap[i].id : i \in 1..k} \ {0}

\* first forEach of validateTasks (lines 110-131), from task k on
RECURSIVE StructureErrors(_, _)
StructureErrors(heap, k) ==
  IF k > Len(heap) THEN <<>>
  ELSE LET task == heap[k]
       IN (IF task.id = 0 THEN <<"ID manquant ou invalide">>
           ELSE IF task.id \in TaskIdsAfter(heap, k - 1) THEN <<"ID duplique">>
           ELSE <<>>)
          \o (IF task.name = "" THEN <<"Nom manquant ou invalide">> ELSE <<>>)
          \o (IF task.duration <= 0
              THEN <<"Duree invalide (doit etre > 0)">> ELSE <<>>)
          \o StructureErrors(heap, k + 1)

\* `task.predecessors.forEach(predId => ...)` of lines 136-143, from e on
RECURSIVE PredecessorErrors(_, _, _)
PredecessorErrors(task, taskIds, e) ==
  IF e > Len(task.predecessors) THEN <<>>
  ELSE (IF task.predecessors[e] \notin taskIds
        THEN <<"Predecesseur inexistant">> ELSE <<>>)
       \o (IF task.predecessors[e] = task.id
           THEN <<"Ne peut pas etre son propre predecesseur">> ELSE <<>>)
       \o PredecessorErrors(task, taskIds, e + 1)

\* second forEach of validateTasks (lines 134-145), from task k on
RECURSIVE DependencyErrors(_, _)
DependencyErrors(heap, k) ==
  IF k > Len(heap) THEN <<>>
  ELSE PredecessorErrors(heap[k], TaskIdsAfter(heap, Len(heap)), 1)
       \o DependencyErrors(heap, k + 1)

\* mutant of CycleCheck: the cycle detection is skipped
CycleCheck_skipped(heap, found) == found

\* lines 147-153: detectCycles runs only when nothing was found before
CycleCheck(heap, found) ==
  IF Len(found) = 0 /\ detectCycles(heap) # Undefined
  THEN Append(found, detectCycles(heap)[1])
  ELSE found

\* mutant of validateTasks: only the first problem found is reported
validateTasks_firstProblemOnly(input) ==
  IF Len(input) = 0
  THEN [valid |-> FALSE, errors |-> <<"Au moins une tache est requise">>]
  ELSE LET found == CycleCheck(input, StructureErrors(input, 1)
                                      \o DependencyErrors(input, 1))
       IN [valid |-> Len(found) = 0,
           errors |-> IF Len(found) = 0 THEN found ELSE <<found[1]>>]

\* mutant of validateTasks: the dependency check (lines 133-145) is left out
validateTasks_noDependencyCheck(input) ==
  IF Len(input) = 0
  THEN [valid |-> FALSE, errors |-> <<"Au moins une tache est requise">>]
  ELSE LET found == CycleCheck(input, StructureErrors(input, 1))
       IN [valid |-> Len(found) = 0, errors |-> found]

\* validateTasks of utils.ts: [valid, errors]
validateTasks(input) ==
  IF Len(input) = 0
  THEN [valid |-> FALSE, errors |-> <<"Au moins une tache est requise">>]
  ELSE LET found == CycleCheck(input, StructureErrors(input, 1)
                                      \o DependencyErrors(input, 1))
       IN [valid |-> Len(found) = 0, errors |-> found]

\* ------------------- earlier utils (unnamed/part_001): validateTasks
\* detectCycle of hasCycle: st = [found, visited, visiting]
RECURSIVE detectCycle(_, _, _)
RECURSIVE DetectCycleAmong(_, _, _, _)
detectCycle(heap, st, taskId) ==
  IF taskId \in st.visited THEN st
  ELSE IF taskId \in st.visiting THEN [st EXCEPT !.found = TRUE]
  ELSE LET p == TaskMapGet(heap, Identity(heap), taskId)
           st1 == [st EXCEPT !.visiting = @ \cup {taskId}]
           st2 == IF p # 0
                  THEN DetectCycleAmong(heap, st1, heap[p].predecessors, 1)
                  ELSE st1
       IN IF st2.found THEN st2
          ELSE [st2 EXCEPT !.visiting = @ \ {taskId},
                           !.visited = @ \cup {taskId}]

DetectCycleAmong(heap, st, preds, e) ==
  IF e > Len(preds) THEN st
  ELSE LET s1 == detectCycle(heap, st, preds[e])
       IN IF s1.found THEN s1 ELSE DetectCycleAmong(heap, s1, preds, e + 1)

\* `for (const task of tasks) if (!visited.has(task.id)) ...`
RECURSIVE HasCycleEach(_, _, _)
HasCycleEach(heap, st, k) ==
  IF k > Len(heap) THEN st
  ELSE LET s1 == detectCycle(heap, st, heap[k].id)
       IN IF s1.found THEN s1 ELSE HasCycleEach(heap, s1, k + 1)

\* hasCycle of part_001 (lines 53-100)
hasCycleOfTasks(heap) ==
  HasCycleEach(heap, [found |-> FALSE, visited |-> {}, visiting |-> {}], 1).found

\* first forEach of part_001 (lines 21-26): an id seen before is a double
RECURSIVE DoubleIdErrors(_, _)
DoubleIdErrors(heap, k) ==
  IF k > Len(heap) THEN <<>>
  ELSE (IF heap[k].id \in {heap[i].id : i \in 1..(k - 1)}
        THEN <<"ID en double">> ELSE <<>>)
       \o DoubleIdErrors(heap, k + 1)

\* second forEach of part_001 (lines 29-35)
RECURSIVE MissingPredecessorErrors(_, _)
MissingPredecessorErrors(heap, k) ==
  IF k > Len(heap) THEN <<>>
  ELSE LET ps == heap[k].predecessors
           taskIds == {heap[i].id : i \in 1..Len(heap)}
           missing == SelectSeq(ps, LAMBDA x : x \notin taskIds)
       IN [e \in 1..Len(missing) |-> "Predecesseur inexistant"]
          \o MissingPredecessorErrors(heap, k + 1)

\* validateTasks of part_001 (lines 16-46): [valid, errors]
validateTasksEarlier(input) ==
  LET found == DoubleIdErrors(input, 1) \o MissingPredecessorErrors(input, 1)
               \o (IF hasCycleOfTasks(input)
                   THEN <<"Il y a un cycle dans les dependances des taches">>
                   ELSE <<>>)
  IN [valid |-> Len(found) = 0, errors |-> found]

\* --------------------- pert.ts, second variant (lines 498-943): DFS sort
\* calculateSlackAndCriticalPath (lines 691-703): `task.slack === 0`
RECURSIVE pertDfsSlackAndCriticalPath(_, _, _)
pertDfsSlackAndCriticalPath(heap, order, k) ==
  IF k > Len(order) THEN heap
  ELSE LET i == order[k]
           task == heap[i]
           slack == OrZero(task.latestStart) - OrZero(task.earliestStart)
       IN pertDfsSlackAndCriticalPath(
            [heap EXCEPT ![i].slack = Some(slack),
                         ![i].isCritical = Some(slack = 0),
                         ![i].start = task.earliestStart,
                         ![i].end = task.earliestFinish],
            order, k + 1)

\* calculateLevel of assignColors (lines 742-765): lv = [overflow, done];
\* done holds the ids with a memoized level, `active` the ids whose call is
\* on the stack.  The level of a task is memoized only after the calls for
\* its predecessors return, so a call that meets an active id recurses
\* without end and the engine throws RangeError (stack overflow).
RECURSIVE calculateLevel(_, _, _, _, _)
RECURSIVE CalculateLevelAmong(_, _, _, _, _, _)
calculateLevel(heap, order, lv, active, taskId) ==
  IF lv.overflow \/ taskId \in lv.done THEN lv
  ELSE LET p == TaskMapGet(heap, order, taskId)
       IN IF p = 0 THEN lv
          ELSE IF Len(heap[p].predecessors) = 0
          THEN [lv EXCEPT !.done = @ \cup {taskId}]
          ELSE IF taskId \in active THEN [lv EXCEPT !.overflow = TRUE]
          ELSE LET l1 == CalculateLevelAmong(heap, order, lv,
                                             active \cup {taskId},
                                             heap[p].predecessors, 1)
               IN IF l1.overflow THEN l1
                  ELSE [l1 EXCEPT !.done = @ \cup {taskId}]

CalculateLevelAmong(heap, order, lv, active, preds, e) ==
  IF e > Len(preds) \/ lv.overflow THEN lv
  ELSE CalculateLevelAmong(
         heap, order, calculateLevel(heap, order, lv, active, preds[e]),
         active, preds, e + 1)

\* `tasks.forEach(task => { const level = calculateLevel(task.id, 0) ... })`
RECURSIVE LevelEach(_, _, _, _)
LevelEach(heap, order, lv, k) ==
  IF k > Len(order) THEN lv
  ELSE LevelEach(heap, order,
                 calculateLevel(heap, order, lv, {}, heap[order[k]].id),
                 k + 1)

\* assignColors of the second pert variant (lines 718-784): TRUE iff the
\* level computation overflows the stack; colours are not modelled
pertAssignColorsThrows(heap, order) ==
  LevelEach(heap, order, [overflow |-> FALSE, done |-> {}], 1).overflow

\* calculatePertData (deep copy, DFS sort, lines 505-537); topologicalSort,
\* calculateEarliestTimes and calculateLatestTimes of this variant (lines
\* 544-684) are the code of gantt.ts 44-110, pert.ts 978-996 and gantt.ts
\* 148-187
calculatePertDataDfs(input) ==
  LET order == topologicalSort(input)
      h1 == calculateForwardPass(input, order, 1)
      h2 == calculateLatestTimes(h1, order)
      h3 == pertDfsSlackAndCriticalPath(h2, order, 1)
      sortedTasks == [k \in 1..Len(order) |-> h3[order[k]]]
  IN IF pertAssignColorsThrows(h3, order)
     THEN [threw |-> TRUE, message |-> "RangeError: Maximum call stack size exceeded",
           data |-> NoData]
     ELSE [threw |-> FALSE, message |-> "",
           data |-> [tasks |-> sortedTasks,
                     criticalPath |-> CriticalFilter(sortedTasks),
                     projectDuration |-> ProjectEnd(h3, order)]]

\* ------------------------------------------------------------ PertChart
\* ids of the event nodes: 'global_start_event', 'global_end_event',
\* `event_task_end_${task.id}` and `event_junction_before_${task.id}`
GlobalStartEvent == [kind |-> "global_start_event", task |-> 0]
GlobalEndEvent == [kind |-> "global_end_event", task |-> 0]
TaskEndEvent(id) == [kind |-> "event_task_end", task |-> id]
JunctionEvent(id) == [kind |-> "event_junction_before", task |-> id]

\* getOrCreateEventNode (lines 64-79) called for each id of `ids` from k on
RECURSIVE getOrCreateEventNodes(_, _, _)
getOrCreateEventNodes(eventIds, ids, k) ==
  IF k > Len(ids) THEN eventIds
  ELSE getOrCreateEventNodes(
         IF ids[k] \in Range(eventIds) THEN eventIds
         ELSE Append(eventIds, ids[k]),
         ids, k + 1)

\* eventNodes in the order of creation (lines 85-100): the two global events,
\* the end event of every task, the junction of every task with predecessors
EventIds(list) ==
  LET waiting == SelectSeq(list, LAMBDA t : Len(t.predecessors) > 0)
  IN getOrCreateEventNodes(
       <<GlobalStartEvent, GlobalEndEvent>>,
       [k \in 1..Len(list) |-> TaskEndEvent(list[k].id)]
         \o [k \in 1..Len(waiting) |-> JunctionEvent(waiting[k].id)],
       1)

\* the links pushed for one task (lines 93-123): a dummy of duration 0 from
\* the end event of every predecessor that is a task, then the activity
LinksOfTask(list, task) ==
  LET known == SelectSeq(task.predecessors,
                         LAMBDA p : \E i \in 1..Len(list) : list[i].id = p)
  IN [e \in 1..Len(known) |->
        [sourceEventId |-> TaskEndEvent(known[e]),
         targetEventId |-> JunctionEvent(task.id),
         duration |-> 0, isDummy |-> TRUE, task |-> task.id]]
     \o <<[sourceEventId |-> IF Len(task.predecessors) = 0
                             THEN GlobalStartEvent
                             ELSE JunctionEvent(task.id),
           targetEventId |-> TaskEndEvent(task.id),
           duration |-> task.duration, isDummy |-> FALSE, task |-> task.id]>>

RECURSIVE LinksOfTasks(_, _)
LinksOfTasks(list, k) ==
  IF k > Len(list) THEN <<>>
  ELSE LinksOfTask(list, list[k]) \o LinksOfTasks(list, k + 1)

\* activityLinks (lines 93-138): the links of the tasks, then a dummy to the
\* global end for every task without successors
ActivityLinks(list) ==
  LET last == SelectSeq(list,
                LAMBDA t : ~\E i \in 1..Len(list) : t.id \in Range(list[i].predecessors))
  IN LinksOfTasks(list, 1)
     \o [k \in 1..Len(last) |->
           [sourceEventId |-> TaskEndEvent(last[k].id),
            targetEventId |-> GlobalEndEvent,
            duration |-> 0, isDummy |-> TRUE, task |-> last[k].id]]

\* one forEach over eventNodes of the forward pass (lines 153-170), from the
\* k-th event on; st = [at, changed]
RECURSIVE ForwardSweep(_, _, _, _)
ForwardSweep(eventIds, links, st, k) ==
  IF k > Len(eventIds) THEN st
  ELSE LET eventNode == eventIds[k]
           incoming == SelectSeq(links, LAMBDA l : l.targetEventId = eventNode)
           reached == MathMax([a \in 1..Len(incoming) |->
                        st.at[incoming[a].sourceEventId] + incoming[a].duration])
           maxPrevEF == IF reached > 0 THEN reached ELSE 0
       IN ForwardSweep(
            eventIds, links,
            IF eventNode # GlobalStartEvent /\ st.at[eventNode] < maxPrevEF
            THEN [at |-> [st.at EXCEPT ![eventNode] = maxPrevEF],
                  changed |-> TRUE]
            ELSE st,
            k + 1)

\* `while (eoChanged && eoIterations < maxIterations)` (lines 150-171)
RECURSIVE EarliestOccurrencePass(_, _, _, _, _)
EarliestOccurrencePass(eventIds, links, st, eoIterations, maxIterations) ==
  IF st.changed /\ eoIterations < maxIterations
  THEN EarliestOccurrencePass(eventIds, links,
                   ForwardSweep(eventIds, links,
                                [st EXCEPT !.changed = FALSE], 1),
                   eoIterations + 1, maxIterations)
  ELSE [at |-> st.at, iterations |-> eoIterations]

\* one `for (const eventId of eventIdsInReverseOrder)` of the backward pass
\* (lines 187-206)
RECURSIVE BackwardSweep(_, _, _, _, _)
BackwardSweep(order, links, st, projectDuration, k) ==
  IF k > Len(order) THEN st
  ELSE LET eventNode == order[k]
           outgoing == SelectSeq(links, LAMBDA l : l.sourceEventId = eventNode)
           allowed == MathMin([a \in 1..Len(outgoing) |->
                        st.at[outgoing[a].targetEventId] - outgoing[a].duration])
           minSuccLS == IF allowed < projectDuration THEN allowed
                        ELSE projectDuration
       IN BackwardSweep(
            order, links,
            IF eventNode # GlobalEndEvent /\ st.at[eventNode] > minSuccLS
            THEN [at |-> [st.at EXCEPT ![eventNode] = minSuccLS],
                  changed |-> TRUE]
            ELSE st,
            projectDuration, k + 1)

\* `while (loChanged && loIterations < maxIterations)` (lines 184-207)
RECURSIVE LatestOccurrencePass(_, _, _, _, _, _)
LatestOccurrencePass(order, links, st, projectDuration, loIterations, maxIterations) ==
  IF st.changed /\ loIterations < maxIterations
  THEN LatestOccurrencePass(order, links,
                     BackwardSweep(order, links,
                                   [st EXCEPT !.changed = FALSE],
                                   projectDuration, 1),
                     projectDuration, loIterations + 1, maxIterations)
  ELSE [at |-> st.at, iterations |-> loIterations]

\* `[...eventNodes].sort((a, b) => b.earliestOccurrence - a.earliestOccurrence)`
EventIdsInReverseOrder(eventIds, eo) ==
  LET srt == StableSort([k \in 1..Len(eventIds) |->
                           [key |-> 0 - eo[eventIds[k]], val |-> eventIds[k]]])
  IN [k \in 1..Len(srt) |-> srt[k].val]

\* mutant of ActivityMetaData: latestFinish is read from the target event's
\* earliest occurrence
ActivityMetaData_earliestOfTarget(link, eo, lo) ==
  [id |-> link.task,
   earliestStart |-> eo[link.sourceEventId],
   earliestFinish |-> eo[link.sourceEventId] + link.duration,
   latestStart |-> eo[link.targetEventId] - link.duration,
   latestFinish |-> eo[link.targetEventId],
   totalSlack |-> 0,
   isCritical |-> TRUE]

\* metaData of a non-dummy link (lines 217-247); the values are whole days,
\* which `parseFloat(x.toFixed(2))` returns as they are
ActivityMetaData(link, eo, lo) ==
  LET ES == eo[link.sourceEventId]
      EF == ES + link.duration
      LF == lo[link.targetEventId]
      LS == LF - link.duration
      totalSlack == LS - ES
  IN [id |-> link.task,
      earliestStart |-> ES,
      earliestFinish |-> EF,
      latestStart |-> LS,
      latestFinish |-> LF,
      totalSlack |-> IF totalSlack > 0 THEN totalSlack ELSE 0,
      isCritical |-> /\ WithinTolerance(eo[link.sourceEventId] - lo[link.sourceEventId])
                     /\ WithinTolerance(eo[link.targetEventId] - lo[link.targetEventId])
                     /\ WithinTolerance(totalSlack)]

NoChart ==
  [eventNodes |-> <<>>, metaData |-> <<>>,
   eoIterations |-> 0, loIterations |-> 0, maxIterations |-> 0]

\* createAOAStructureAndCalculateTimes (lines 55-259): the event nodes with
\* their times, the metaData of the non-dummy links, and the counters of the
\* two while loops with their cap
createAOAStructureAndCalculateTimes(list) ==
  IF Len(list) = 0 THEN NoChart
  ELSE LET eventIds == EventIds(list)
           links == ActivityLinks(list)
           maxIterations == Len(eventIds) * Len(eventIds)
           forward == EarliestOccurrencePass(
                        eventIds, links,
                        [at |-> [e \in Range(eventIds) |-> 0], changed |-> TRUE],
                        0, maxIterations)
           projectDuration == forward.at[GlobalEndEvent]
           backward == LatestOccurrencePass(
                         EventIdsInReverseOrder(eventIds, forward.at), links,
                         [at |-> [e \in Range(eventIds) |->
                                    IF e = GlobalStartEvent THEN 0
                                    ELSE projectDuration],
                          changed |-> TRUE],
                         projectDuration, 0, maxIterations)
           activities == SelectSeq(links, LAMBDA l : ~l.isDummy)
       IN [eventNodes |->
             [k \in 1..Len(eventIds) |->
                [id |-> eventIds[k],
                 earliestOccurrence |-> forward.at[eventIds[k]],
                 latestOccurrence |-> backward.at[eventIds[k]],
                 isCritical |-> WithinTolerance(forward.at[eventIds[k]]
                                                - backward.at[eventIds[k]])]],
           metaData |->
             [k \in 1..Len(activities) |->
                ActivityMetaData(activities[k], forward.at, backward.at)],
           eoIterations |-> forward.iterations,
           loIterations |-> backward.iterations,
           maxIterations |-> maxIterations]

\* ------------------------------------------------------------- actions
\* the engines are called directly, without the page
PageNotMounted ==
  /\ appState = "initial"
  /\ diagramType = "both"
  /\ diagramData = Undefined
  /\ error = Undefined
  /\ isTransitioning = FALSE
  /\ timers = <<>>
  /\ handler = "none"
  /\ called = {}
  /\ build = [page |-> "none", validator |-> "none"]

Init ==
  /\ \E n \in 1..MaxTasks :
       \E perm \in ListOrders(n) :
         \E dur \in [1..n -> 0..MaxDur] :
           \E edges \in PredChoices(n) :
             tasks = InputList(n, perm, dur, edges)
  /\ result = NoData
  /\ outcome = "none"
  /\ callee = "none"
  /\ errors = <<>>
  /\ errorTaskIds = <<>>
  /\ chart = NoChart
  /\ PageNotMounted

\* a caller holds a list that nothing has validated: empty, cyclic,
\* self-referencing, or with one defective task; or a list over an acyclic
\* relation with two defects (in one task or in two)
InitAnyInput ==
  /\ \/ \E n \in 0..MaxAnyTasks :
          \E edges \in AnyPredChoices(n) :
            \E defect \in Defects :
              \E k, j \in 1..(IF n = 0 THEN 1 ELSE n) :
                /\ n = 0 => defect = "none"
                /\ defect = "none" => k = 1 /\ j = 1
                /\ defect = "duplicateId" => j # k
                /\ defect \notin {"none", "duplicateId", "repeatedPredecessor"}
                     => j = 1
                /\ tasks = WithDefect(
                             InputList(n, [i \in 1..n |-> i],
                                       [i \in 1..n |-> 1], edges),
                             defect, k, j)
     \/ \E n \in 1..MaxAnyTasks :
          \E edges \in PredChoices(n) :
            \E first \in Defects \ {"none"} :
              \E second \in Defects \ {"none", "duplicateId"} :
                \E k, j \in 1..n :
                  tasks = WithDefect(
                            WithDefect(
                              InputList(n, [i \in 1..n |-> i],
                                        [i \in 1..n |-> 1], edges),
                              first, k, (k % n) + 1),
                            second, j, 1)
  /\ result = NoData
  /\ outcome = "none"
  /\ callee = "none"
  /\ errors = <<>>
  /\ errorTaskIds = <<>>
  /\ chart = NoChart
  /\ PageNotMounted

\* a caller runs calculatePertData of the third variant on its list; the
\* deep copy leaves the caller's objects alone
CallPertKahn ==
  /\ outcome = "none"
  /\ \E r \in {calculatePertDataKahn(tasks)} :
       /\ outcome' = IF r.threw THEN "thrown" ELSE "returned"
       /\ result' = r.data
       /\ errors' = IF r.threw THEN <<r.message>> ELSE <<>>
  /\ callee' = "pertKahn"
  /\ UNCHANGED <<pageVars, chart>>
  /\ errorTaskIds' = <<>>
  /\ UNCHANGED tasks

\* a caller runs calculatePertData of the first variant on its list; the
\* calculator writes into the caller's task objects
CallPertCalculator ==
  /\ outcome = "none"
  /\ \E r \in {calculatePertDataCalculator(tasks)} :
       /\ outcome' = IF r.threw THEN "thrown" ELSE "returned"
       /\ result' = r.data
       /\ errors' = IF r.threw THEN <<r.message>> ELSE <<>>
       /\ errorTaskIds' = r.named
       /\ tasks' = r.heap
  /\ callee' = "pertCalculator"
  /\ UNCHANGED <<pageVars, chart>>

\* a caller runs calculateGanttData (forward/backward passes) on its list
CallGantt ==
  /\ outcome = "none"
  /\ \E r \in {calculateGanttData(tasks)} :
       /\ outcome' = IF r.threw THEN "thrown" ELSE "returned"
       /\ result' = r.data
       /\ errors' = IF r.threw THEN <<r.message>> ELSE <<>>
  /\ callee' = "ganttPasses"
  /\ UNCHANGED <<pageVars, chart>>
  /\ errorTaskIds' = <<>>
  /\ UNCHANGED tasks

\* a caller runs calculateGanttData (single pass) on its list
CallGanttSinglePass ==
  /\ outcome = "none"
  /\ \E r \in {calculateGanttDataSinglePass(tasks)} :
       /\ outcome' = IF r.threw THEN "thrown" ELSE "returned"
       /\ result' = r.data
       /\ errors' = IF r.threw THEN <<r.message>> ELSE <<>>
  /\ callee' = "ganttSinglePass"
  /\ UNCHANGED <<pageVars, chart>>
  /\ errorTaskIds' = <<>>
  /\ UNCHANGED tasks

\* a caller runs calculatePertData of the second variant on its list
CallPertDfs ==
  /\ outcome = "none"
  /\ \E r \in {calculatePertDataDfs(tasks)} :
       /\ outcome' = IF r.threw THEN "thrown" ELSE "returned"
       /\ result' = r.data
       /\ errors' = IF r.threw THEN <<r.message>> ELSE <<>>
  /\ callee' = "pertDfs"
  /\ UNCHANGED <<pageVars, chart>>
  /\ errorTaskIds' = <<>>
  /\ UNCHANGED tasks

\* a caller runs validateTasks of utils.ts on its list
CallValidateTasks ==
  /\ outcome = "none"
  /\ \E r \in {validateTasks(tasks)} :
       /\ outcome' = IF r.valid THEN "valid" ELSE "invalid"
       /\ errors' = r.errors
  /\ callee' = "validateTasks"
  /\ UNCHANGED <<pageVars, chart>>
  /\ errorTaskIds' = <<>>
  /\ UNCHANGED <<tasks, result>>

\* a caller runs validateTasks of the earlier utils on its list
CallValidateTasksEarlier ==
  /\ outcome = "none"
  /\ \E r \in {validateTasksEarlier(tasks)} :
       /\ outcome' = IF r.valid THEN "valid" ELSE "invalid"
       /\ errors' = r.errors
  /\ callee' = "validateTasksEarlier"
  /\ UNCHANGED <<pageVars, chart>>
  /\ errorTaskIds' = <<>>
  /\ UNCHANGED <<tasks, result>>

\* the PERT chart is rendered for the tasks of a result of calculatePertData
\* (PertChart's effect, lines 373-381, with the tasks DiagramResult passes)
RenderPertChart ==
  /\ callee = "pertKahn"
  /\ outcome = "returned"
  /\ chart = NoChart
  /\ Len(result.tasks) > 0
  /\ chart' = createAOAStructureAndCalculateTimes(result.tasks)
  /\ UNCHANGED <<tasks, result, outcome, callee, errors, errorTaskIds, pageVars>>

Next ==
  \/ RenderPertChart
  \/ CallPertKahn
  \/ CallPertCalculator
  \/ CallPertDfs
  \/ CallGantt
  \/ CallGanttSinglePass
  \/ CallValidateTasks
  \/ CallValidateTasksEarlier

\* callers whose lists are acyclic, referentially sound and have unique ids
Spec == Init /\ [][Next]_vars

\* callers whose lists nothing has validated
SpecAnyInput == InitAnyInput /\ [][Next]_vars

\* handleEditTasks (page.tsx 83-86) puts the tasks of a displayed result back
\* into the form, computed fields included; the form may change a duration
\* (updateTask) and saves the list, which reaches the engines annotated
EditedTasks(previous, k, d) ==
  [i \in 1..Len(previous) |->
     IF i = k THEN [previous[i] EXCEPT !.duration = d] ELSE previous[i]]

\* a caller holds the tasks of an earlier result of a valid list
InitEdited ==
  /\ \E n \in 1..MaxTasks :
       \E dur \in [1..n -> 1..MaxDur] :
         \E edges \in PredChoices(n) :
           \E previous \in
               {calculatePertDataKahn(InputList(n, [i \in 1..n |-> i], dur, edges)).data.tasks,
                calculateGanttData(InputList(n, [i \in 1..n |-> i], dur, edges)).data.tasks,
                calculateGanttDataSinglePass(InputList(n, [i \in 1..n |-> i], dur, edges)).data.tasks} :
             \E k \in 0..n :
               \E d \in 1..MaxDur :
                 /\ k = 0 => d = 1
                 /\ tasks = EditedTasks(previous, k, d)
  /\ result = NoData
  /\ outcome = "none"
  /\ callee = "none"
  /\ errors = <<>>
  /\ errorTaskIds = <<>>
  /\ chart = NoChart
  /\ PageNotMounted

\* callers whose lists come back from a displayed result
SpecEdited == InitEdited /\ [][Next]_vars

\* ---------------------------------------------------------------- page
\* generateSampleData (utils.ts 28-38), ids A..G as 1..7
SampleData ==
  <<NewTask(1, "task", 5, <<>>), NewTask(2, "task", 7, <<1>>),
    NewTask(3, "task", 10, <<2>>), NewTask(4, "task", 12, <<2>>),
    NewTask(5, "task", 6, <<3, 4>>), NewTask(6, "task", 8, <<5>>),
    NewTask(7, "task", 3, <<6>>)>>

\* `errors.join('\n')`
RECURSIVE Join(_, _)
Join(xs, k) ==
  IF Len(xs) = 0 THEN ""
  ELSE IF k = Len(xs) THEN xs[k]
  ELSE xs[k] \o "\n" \o Join(xs, k + 1)

\* `validation.isValid` as the page reads it: validateTasks of utils.ts
\* returns {valid, errors}, which has no property isValid (undefined, falsy);
\* the earlier validateTasks returns {isValid, errors}
ValidationOf(input, b) ==
  IF b.validator = "earlier"
  THEN [isValid |-> validateTasksEarlier(input).valid,
        errors |-> validateTasksEarlier(input).errors]
  ELSE [isValid |-> FALSE, errors |-> validateTasks(input).errors]

\* mutant of generateDiagrams: the schedule is computed whatever the
\* validation says
generateDiagrams_withoutGate(input, type, b) ==
  LET gantt == calculateGanttData(input)
      pert == calculatePertDataKahn(input)
  IN IF type = "gantt"
     THEN [shown |-> ~gantt.threw, data |-> gantt.data, error |-> gantt.message,
           called |-> {"calculateGanttData"}]
     ELSE [shown |-> ~pert.threw, data |-> pert.data, error |-> pert.message,
           called |-> {"calculateGanttData", "calculatePertData"}]

\* generateDiagrams (page.tsx 29-68, 249-282) up to its state updates:
\* shown iff the try block reached setDiagramData; called lists the engine
\* functions that were entered
generateDiagrams(input, type, b) ==
  LET validation == ValidationOf(input, b)
      gantt == calculateGanttData(input)
      pert == calculatePertDataKahn(input)
      failed(message) ==
        [shown |-> FALSE, data |-> NoData, called |-> {},
         error |-> "Erreur lors de la generation des diagrammes: " \o message]
  IN IF ~validation.isValid
     THEN [shown |-> FALSE, data |-> NoData, called |-> {},
           error |-> Join(validation.errors, 1)]
     ELSE IF type = "gantt"
     THEN IF gantt.threw
          THEN [failed(gantt.message) EXCEPT !.called = {"calculateGanttData"}]
          ELSE [shown |-> TRUE, data |-> gantt.data, error |-> "",
                called |-> {"calculateGanttData"}]
     ELSE IF type = "pert"
     THEN IF pert.threw
          THEN [failed(pert.message) EXCEPT !.called = {"calculatePertData"}]
          ELSE [shown |-> TRUE, data |-> pert.data, error |-> "",
                called |-> {"calculatePertData"}]
     ELSE IF gantt.threw
          THEN [failed(gantt.message) EXCEPT !.called = {"calculateGanttData"}]
          ELSE IF pert.threw
          THEN [failed(pert.message) EXCEPT
                  !.called = {"calculateGanttData", "calculatePertData"}]
          ELSE [shown |-> TRUE, data |-> pert.data, error |-> "",
                called |-> {"calculateGanttData", "calculatePertData"}]

\* transitionToState (lines 285-291) in the page with transitions; in the
\* first page the handlers call setAppState themselves
TransitionTo(newState) ==
  IF build.page = "delayed"
  THEN /\ isTransitioning' = TRUE
       /\ timers' = Append(timers, newState)
       /\ UNCHANGED appState
  ELSE /\ appState' = newState
       /\ UNCHANGED <<isTransitioning, timers>>

CanTransition == build.page = "delayed" => Len(timers) < MaxTimers

\* the page is mounted: one of the two page variants, bundled with one of the
\* two validateTasks variants
PageInit ==
  /\ tasks = <<>>
  /\ result = NoData
  /\ outcome = "none"
  /\ callee = "none"
  /\ errors = <<>>
  /\ errorTaskIds = <<>>
  /\ chart = NoChart
  /\ appState = "initial"
  /\ diagramType = "both"
  /\ diagramData = Undefined
  /\ error = Undefined
  /\ isTransitioning = FALSE
  /\ timers = <<>>
  /\ handler = "none"
  /\ called = {}
  /\ build \in [page : {"direct", "delayed"}, validator : {"utils", "earlier"}]

\* the buttons of the INITIAL screen
ClickCreate ==
  /\ appState = "initial"
  /\ CanTransition
  /\ TransitionTo("form")
  /\ handler' = "create"
  /\ called' = {}
  /\ UNCHANGED <<tasks, engineVars, diagramType, diagramData, error, build>>

ClickImport ==
  /\ appState = "initial"
  /\ CanTransition
  /\ TransitionTo("import")
  /\ handler' = "import"
  /\ called' = {}
  /\ UNCHANGED <<tasks, engineVars, diagramType, diagramData, error, build>>

useSampleData ==
  /\ appState = "initial"
  /\ CanTransition
  /\ tasks' = SampleData
  /\ TransitionTo("form")
  /\ handler' = "useSampleData"
  /\ called' = {}
  /\ UNCHANGED <<engineVars, diagramType, diagramData, error, build>>

\* the list a form hands over: one to MaxPageTasks named tasks of duration 1
\* that is sound, or has a cycle (every task also waits for the previous one,
\* the first for the last), or has a dangling predecessor left by an import
SubmissionKinds == {"sound", "cyclic", "dangling"}

Submitted(n, edges, kind) ==
  WithDefect(InputList(n, [i \in 1..n |-> i], [i \in 1..n |-> 1],
                       IF kind = "cyclic"
                       THEN edges \cup {<<i, (i % n) + 1>> : i \in 1..n}
                       ELSE edges),
             IF kind = "dangling" THEN "danglingPredecessor" ELSE "none", 1, 1)

handleImport ==
  /\ appState = "import"
  /\ CanTransition
  /\ \E n \in 1..MaxPageTasks :
       \E edges \in PredChoices(n) :
         \E kind \in SubmissionKinds :
           tasks' = Submitted(n, edges, kind)
  /\ TransitionTo("form")
  /\ handler' = "handleImport"
  /\ called' = {}
  /\ UNCHANGED <<engineVars, diagramType, diagramData, error, build>>

\* onCancel of the import form and of the task form
Cancel ==
  /\ appState \in {"import", "form"}
  /\ CanTransition
  /\ TransitionTo("initial")
  /\ handler' = "cancel"
  /\ called' = {}
  /\ UNCHANGED <<tasks, engineVars, diagramType, diagramData, error, build>>

\* handleSaveForm: setTasks([...newTasks]); generateDiagrams(newTasks, type)
handleSaveForm ==
  /\ appState = "form"
  /\ CanTransition
  /\ \E n \in 1..MaxPageTasks :
       \E edges \in PredChoices(n) :
         \E kind \in SubmissionKinds :
           \E type \in {"gantt", "pert", "both"} :
             \E r \in {generateDiagrams(Submitted(n, edges, kind), type, build)} :
               /\ tasks' = Submitted(n, edges, kind)
               /\ called' = r.called
               /\ IF r.shown
                  THEN /\ diagramData' = Some(r.data)
                       /\ diagramType' = type
                       /\ TransitionTo("result")
                       /\ error' = Undefined
                  ELSE /\ error' = Some(r.error)
                       /\ UNCHANGED <<diagramData, diagramType, appState,
                                      isTransitioning, timers>>
  /\ handler' = "handleSaveForm"
  /\ UNCHANGED <<engineVars, build>>

\* onEditTasks(tasks) of DiagramResult, tasks being diagramData.tasks
handleEditTasks ==
  /\ appState = "result"
  /\ diagramData # Undefined
  /\ CanTransition
  /\ tasks' = diagramData[1].tasks
  /\ TransitionTo("form")
  /\ handler' = "handleEditTasks"
  /\ called' = {}
  /\ UNCHANGED <<engineVars, diagramType, diagramData, error, build>>

handleNewDiagram ==
  /\ appState = "result"
  /\ diagramData # Undefined
  /\ CanTransition
  /\ tasks' = <<>>
  /\ diagramData' = Undefined
  /\ TransitionTo("initial")
  /\ handler' = "handleNewDiagram"
  /\ called' = {}
  /\ UNCHANGED <<engineVars, diagramType, error, build>>

\* the button under 'Erreur: donnees de diagramme non disponibles'
ClickRestart ==
  /\ appState = "result"
  /\ diagramData = Undefined
  /\ CanTransition
  /\ TransitionTo("initial")
  /\ handler' = "restart"
  /\ called' = {}
  /\ UNCHANGED <<tasks, engineVars, diagramType, diagramData, error, build>>

\* the close button of the error toast (rendered for a truthy error)
CloseError ==
  /\ build.page = "delayed"
  /\ error \notin {Undefined, Some("")}
  /\ error' = Undefined
  /\ handler' = "closeError"
  /\ called' = {}
  /\ UNCHANGED <<tasks, engineVars, appState, diagramType, diagramData,
                 isTransitioning, timers, build>>

\* the callback of the oldest setTimeout of transitionToState runs
TimerFires ==
  /\ Len(timers) > 0
  /\ appState' = Head(timers)
  /\ isTransitioning' = FALSE
  /\ timers' = Tail(timers)
  /\ handler' = "timer"
  /\ called' = {}
  /\ UNCHANGED <<tasks, engineVars, diagramType, diagramData, error, build>>

PageNext ==
  \/ ClickCreate
  \/ ClickImport
  \/ useSampleData
  \/ handleImport
  \/ Cancel
  \/ handleSaveForm
  \/ handleEditTasks
  \/ handleNewDiagram
  \/ ClickRestart
  \/ CloseError
  \/ TimerFires

\* the page under any sequence of user actions and timer callbacks
SpecPage == PageInit /\ [][PageNext]_vars

\* ----------------------------------------------------------- task form
\* generateId (utils.ts 43-45) is Math.random().toString(36).substr(2, 9):
\* nothing keeps it from returning an id that a task of the list has. The
\* outcomes tried are an id that no task has and the id of the first task
GeneratedIds(list) ==
  LET used == {list[i].id : i \in 1..Len(list)}
      fresh == CHOOSE id \in 1..(Len(list) + 1) :
                 id \notin used /\ \A x \in 1..(id - 1) : x \in used
  IN {fresh} \cup (IF Len(list) = 0 THEN {} ELSE {list[1].id})

\* the blank task of useState and addTask (lines 19-24, 36-41)
BlankTask(id) == NewTask(id, "", 1, <<>>)

\* addTask (lines 35-42)
addTask(list, id) == Append(list, BlankTask(id))

\* mutant of removeTask: the references to the removed task stay
removeTask_keepsReferences(list, index) ==
  [k \in 1..(Len(list) - 1) |-> IF k < index THEN list[k] ELSE list[k + 1]]

\* removeTask (lines 45-58): splice, then filter the removed id out of every
\* remaining task's predecessors
removeTask(list, index) ==
  LET removedTaskId == list[index].id
      spliced == [k \in 1..(Len(list) - 1) |->
                    IF k < index THEN list[k] ELSE list[k + 1]]
  IN [k \in 1..Len(spliced) |->
        [spliced[k] EXCEPT !.predecessors =
           SelectSeq(@, LAMBDA pred : pred # removedTaskId)]]

\* updateTask (lines 61-65) as the inputs call it: the name field with the
\* typed text, the duration field with `parseInt(text, 10) || 1`
updateTask(list, index, field, value) ==
  IF field = "name" THEN [list EXCEPT ![index].name = value]
  ELSE [list EXCEPT ![index].duration = IF value = 0 THEN 1 ELSE value]

\* handlePredecessorChange (lines 68-83)
handlePredecessorChange(list, taskIndex, predecessorId, isChecked) ==
  IF isChecked
  THEN IF predecessorId \in Range(list[taskIndex].predecessors) THEN list
       ELSE [list EXCEPT ![taskIndex].predecessors = Append(@, predecessorId)]
  ELSE [list EXCEPT ![taskIndex].predecessors =
          SelectSeq(@, LAMBDA id : id # predecessorId)]

\* relations in which no task waits for itself
OtherTaskChoices(n) == SUBSET {e \in (1..n) \X (1..n) : e[1] # e[2]}

\* useState of TaskForm (lines 19-24): the initial tasks, or one blank task
\* when there are none. The initial lists have distinct ids and every
\* predecessor id names another task; an imported list may name one twice
FormInit ==
  /\ \E n \in 0..MaxFormTasks :
       \E edges \in OtherTaskChoices(n) :
         \E repeated \in 0..n :
           \E id \in GeneratedIds(<<>>) :
             /\ tasks = IF n = 0 THEN <<BlankTask(id)>>
                        ELSE WithDefect(
                               InputList(n, [i \in 1..n |-> i],
                                         [i \in 1..n |-> 1], edges),
                               IF repeated = 0 THEN "none"
                               ELSE "repeatedPredecessor",
                               IF repeated = 0 THEN 1 ELSE repeated, 1)
  /\ result = NoData
  /\ outcome = "none"
  /\ callee = "none"
  /\ errors = <<>>
  /\ errorTaskIds = <<>>
  /\ chart = NoChart
  /\ PageNotMounted

\* the button 'Ajouter une tache'
ClickAddTask ==
  /\ Len(tasks) < MaxFormTasks
  /\ \E id \in GeneratedIds(tasks) : tasks' = addTask(tasks, id)
  /\ UNCHANGED <<engineVars, pageVars>>

\* the remove button of a task, rendered while tasks.length > 1 (line 138)
ClickRemoveTask ==
  /\ Len(tasks) > 1
  /\ \E index \in 1..Len(tasks) : tasks' = removeTask(tasks, index)
  /\ UNCHANGED <<engineVars, pageVars>>

\* typing into the name or the duration input of a task (lines 158, 175)
ChangeField ==
  /\ \E index \in 1..Len(tasks) :
       \/ \E text \in {"", "task"} : tasks' = updateTask(tasks, index, "name", text)
       \/ \E number \in {0, 2} : tasks' = updateTask(tasks, index, "duration", number)
  /\ UNCHANGED <<engineVars, pageVars>>

\* a predecessor checkbox of a task: one per other position of the list
\* (`if (predIndex === index) return null`, line 194), checked iff the task
\* lists that id (line 201), so a click passes the opposite
ChangePredecessor ==
  /\ \E index \in 1..Len(tasks) :
       \E predIndex \in (1..Len(tasks)) \ {index} :
         tasks' = handlePredecessorChange(
                    tasks, index, tasks[predIndex].id,
                    tasks[predIndex].id \notin Range(tasks[index].predecessors))
  /\ UNCHANGED <<engineVars, pageVars>>

FormNext ==
  \/ ClickAddTask
  \/ ClickRemoveTask
  \/ ChangeField
  \/ ChangePredecessor

\* the task form under any sequence of its handlers
SpecTaskForm == FormInit /\ [][FormNext]_vars

\* ------------------------------------------------------------ properties
Returned(c) == outcome = "returned" /\ callee = c

ReturnedByPert == Returned("pertKahn") \/ Returned("pertCalculator")

ResultTask(id) == CHOOSE t \in Range(result.tasks) : t.id = id

PredTasks(t) == {ResultTask(p) : p \in Range(t.predecessors)}

SuccTasks(t) == {s \in Range(result.tasks) : t.id \in Range(s.predecessors)}

SetMax(S) == CHOOSE x \in S : \A y \in S : y <= x

SetMin(S) == CHOOSE x \in S : \A y \in S : x <= y

\* the input list met the validators' demand of durations >= 1
PositiveDurations == \A i \in 1..Len(tasks) : tasks[i].duration >= 1

\* C1: in every result of the two Kahn-based calculatePertData variants, a
\* task without predecessors has earliestStart 0 and every other task has
\* earliestStart equal to the largest earliestFinish of its predecessors
C1_ForwardPass ==
  ReturnedByPert =>
    \A t \in Range(result.tasks) :
       IF Len(t.predecessors) = 0
       THEN t.earliestStart = Some(0)
       ELSE t.earliestStart =
              Some(SetMax({p.earliestFinish[1] : p \in PredTasks(t)}))

\* a task with two predecessors that finish at different times was scheduled
C1_Witness ==
  /\ Returned("pertCalculator")
  /\ \E t \in Range(result.tasks) :
        /\ \E p, q \in PredTasks(t) : p.earliestFinish[1] < q.earliestFinish[1]
        /\ t.earliestStart[1] > 0

\* C2: in every result of the deep-copying Kahn variant (durations >= 0),
\* with D the largest earliestFinish, a task without successors has
\* latestFinish = D, a task with successors has latestFinish equal to the
\* smallest latestStart of its successors, and latestStart = latestFinish -
\* duration
C2_BackwardPass ==
  Returned("pertKahn") =>
    LET D == SetMax({t.earliestFinish[1] : t \in Range(result.tasks)})
    IN \A t \in Range(result.tasks) :
          /\ IF SuccTasks(t) = {}
             THEN t.latestFinish = Some(D)
             ELSE t.latestFinish =
                    Some(SetMin({s.latestStart[1] : s \in SuccTasks(t)}))
          /\ t.latestStart = Some(t.latestFinish[1] - t.duration)

\* C3: in every result of calculatePertData and of the forward/backward
\* calculateGanttData, earliestFinish - earliestStart = duration,
\* latestFinish - latestStart = duration, and slack = latestStart -
\* earliestStart = latestFinish - earliestFinish
C3_RoundTrip ==
  (ReturnedByPert \/ Returned("ganttPasses")) =>
    \A t \in Range(result.tasks) :
       /\ t.earliestFinish[1] - t.earliestStart[1] = t.duration
       /\ t.latestFinish[1] - t.latestStart[1] = t.duration
       /\ t.slack[1] = t.latestStart[1] - t.earliestStart[1]
       /\ t.slack[1] = t.latestFinish[1] - t.earliestFinish[1]

\* a task with positive slack and positive duration was returned
C3_Witness ==
  /\ Returned("pertKahn")
  /\ \E t \in Range(result.tasks) : t.slack[1] > 0 /\ t.duration > 0

\* C4: for input durations >= 1, every task returned by calculatePertData
\* has slack >= 0
C4_NoNegativeSlack ==
  (ReturnedByPert /\ PositiveDurations) =>
    \A t \in Range(result.tasks) : t.slack[1] >= 0

\* a result with a task of positive slack next to a task of slack 0
C4_Witness ==
  /\ Returned("pertCalculator")
  /\ PositiveDurations
  /\ \E t, u \in Range(result.tasks) : t.slack[1] > 0 /\ u.slack[1] = 0

\* C5: in every result of calculatePertData with the default tolerance, a
\* task is flagged isCritical exactly when its slack is 0
C5_CriticalIffZeroSlack ==
  ReturnedByPert =>
    \A t \in Range(result.tasks) :
       (t.isCritical = Some(TRUE)) <=> (t.slack[1] = 0)

\* a result with a task of slack 1, the integer slack nearest to the
\* tolerance, flagged not critical
C5_Witness ==
  /\ Returned("pertCalculator")
  /\ \E t \in Range(result.tasks) :
        t.slack[1] = 1 /\ t.isCritical = Some(FALSE)

\* C6: the projectDuration returned by calculatePertData and by the
\* forward/backward calculateGanttData is the largest earliestFinish of the
\* returned tasks
C6_ProjectDuration ==
  (ReturnedByPert \/ Returned("ganttPasses")) =>
    result.projectDuration =
      SetMax({t.earliestFinish[1] : t \in Range(result.tasks)})

\* a result whose last returned task does not finish last
C6_Witness ==
  /\ Returned("pertCalculator")
  /\ result.tasks[Len(result.tasks)].earliestFinish[1] < result.projectDuration

\* a chain of critical tasks from t to a task without successors, each the
\* predecessor of the next, whose durations add up to `remaining`
RECURSIVE CriticalChainFrom(_, _)
CriticalChainFrom(t, remaining) ==
  /\ t.isCritical = Some(TRUE)
  /\ IF SuccTasks(t) = {}
     THEN t.duration = remaining
     ELSE \E s \in SuccTasks(t) : CriticalChainFrom(s, remaining - t.duration)

\* C7: for input durations >= 1, every result of calculatePertData has a
\* chain of critical tasks from a task without predecessors to a task
\* without successors whose durations add up to projectDuration
C7_CriticalPathCoherence ==
  (ReturnedByPert /\ PositiveDurations) =>
    \E t \in Range(result.tasks) :
       /\ Len(t.predecessors) = 0
       /\ CriticalChainFrom(t, result.projectDuration)

\* a result in which a task with two successors is critical and only one of
\* the successors is
C7_Witness ==
  /\ Returned("pertCalculator")
  /\ PositiveDurations
  /\ \E t \in Range(result.tasks) :
        /\ t.isCritical = Some(TRUE)
        /\ \E s, u \in SuccTasks(t) :
              s.isCritical = Some(TRUE) /\ u.isCritical = Some(FALSE)

\* the number of positions of a list that hold x
Occurrences(xs, x) == Cardinality({k \in 1..Len(xs) : xs[k] = x})

\* C8: in every result of calculatePertData, criticalPath holds the id of
\* every task flagged isCritical exactly once and no other id
C8_CriticalPathMembers ==
  ReturnedByPert =>
    /\ \A t \in Range(result.tasks) :
          Occurrences(result.criticalPath, t.id) =
            IF t.isCritical = Some(TRUE) THEN 1 ELSE 0
    /\ \A k \in 1..Len(result.criticalPath) :
          \E t \in Range(result.tasks) : t.id = result.criticalPath[k]

\* a result with two critical tasks and one that is not
C8_Witness ==
  /\ Returned("pertCalculator")
  /\ Len(result.criticalPath) = 2
  /\ Len(result.tasks) = 3

\* C9 as claimed: criticalPath is ordered by earliestStart ascending and
\* critical tasks with equal earliestStart appear in ascending id order
C9_OrderedByStartThenId ==
  ReturnedByPert =>
    \A k, l \in 1..Len(result.criticalPath) :
       k < l =>
         LET a == ResultTask(result.criticalPath[k])
             b == ResultTask(result.criticalPath[l])
         IN \/ a.earliestStart[1] < b.earliestStart[1]
            \/ a.earliestStart[1] = b.earliestStart[1] /\ a.id < b.id

\* the position of the task with the given id in the returned task list
PositionOf(id) == CHOOSE k \in 1..Len(result.tasks) : result.tasks[k].id = id

\* C9 as amended: criticalPath of the PertCalculator variant is ordered by
\* earliestStart ascending and critical tasks with equal earliestStart keep
\* the order of the returned task list; criticalPath of the deep-copying
\* variant keeps the order of the returned task list throughout
C9_OrderedByStartThenListOrder ==
  /\ Returned("pertCalculator") =>
       \A k, l \in 1..Len(result.criticalPath) :
          k < l =>
            LET a == ResultTask(result.criticalPath[k])
                b == ResultTask(result.criticalPath[l])
            IN \/ a.earliestStart[1] < b.earliestStart[1]
               \/ /\ a.earliestStart[1] = b.earliestStart[1]
                  /\ PositionOf(a.id) < PositionOf(b.id)
  /\ Returned("pertKahn") =>
       \A k, l \in 1..Len(result.criticalPath) :
          k < l => PositionOf(result.criticalPath[k])
                     < PositionOf(result.criticalPath[l])

\* a critical path whose first two tasks start together, the larger id first
C9_Witness ==
  /\ Returned("pertCalculator")
  /\ Len(result.criticalPath) >= 2
  /\ LET a == ResultTask(result.criticalPath[1])
         b == ResultTask(result.criticalPath[2])
     IN a.earliestStart = b.earliestStart /\ a.id > b.id

\* C10 as claimed: every task returned by calculateGanttData has start 0 if
\* it has no predecessors, otherwise start equal to the largest end of its
\* predecessors, and end = start + duration
C10_SinglePassGantt ==
  (Returned("ganttPasses") \/ Returned("ganttSinglePass")) =>
    \A t \in Range(result.tasks) :
       /\ IF Len(t.predecessors) = 0
          THEN t.start = Some(0)
          ELSE t.start = Some(SetMax({p.end[1] : p \in PredTasks(t)}))
       /\ t.end = Some(t.start[1] + t.duration)

\* ------------------------------------- properties of unvalidated lists
\* the ids of the caller's list
TaskIds == {tasks[i].id : i \in 1..Len(tasks)}

\* the ids listed as predecessors by the tasks whose id is in S
PredecessorIdsOf(S) ==
  UNION {Range(tasks[i].predecessors) : i \in {k \in 1..Len(tasks) : tasks[k].id \in S}}

\* the ids reached from id x by one or more predecessor links
RECURSIVE ReachedWithin(_, _)
ReachedWithin(S, steps) ==
  IF steps = 0 THEN S
  ELSE ReachedWithin(S \cup PredecessorIdsOf(S), steps - 1)

ReachedFrom(x) == ReachedWithin(PredecessorIdsOf({x}), Len(tasks))

\* the predecessor relation of the caller's list contains a cycle
Cyclic == \E x \in TaskIds : x \in ReachedFrom(x)

\* the list passes the structural checks: ids non-empty and pairwise
\* distinct, names non-empty, durations > 0
StructurallySound ==
  /\ \A i \in 1..Len(tasks) :
        tasks[i].id # 0 /\ tasks[i].name # "" /\ tasks[i].duration > 0
  /\ \A i, k \in 1..Len(tasks) : i # k => tasks[i].id # tasks[k].id

UniqueIds ==
  /\ \A i \in 1..Len(tasks) : tasks[i].id # 0
  /\ \A i, k \in 1..Len(tasks) : i # k => tasks[i].id # tasks[k].id

\* some task lists a predecessor id that no task has
HasDanglingPredecessor ==
  \E i \in 1..Len(tasks) : \E x \in Range(tasks[i].predecessors) : x \notin TaskIds

\* some task lists its own id
HasSelfReference ==
  \E i \in 1..Len(tasks) : tasks[i].id \in Range(tasks[i].predecessors)

ReferentiallySound == ~HasDanglingPredecessor /\ ~HasSelfReference

Validated(c) == callee = c /\ outcome \in {"valid", "invalid"}

\* C11: for every non-empty list that passes the structural and referential
\* checks, validateTasks (utils.ts and the earlier utils) reports the list
\* invalid with a cycle error if and only if the predecessor relation
\* contains a cycle, and reports it valid otherwise
C11_CycleRejection ==
  (Len(tasks) > 0 /\ StructurallySound /\ ReferentiallySound) =>
    /\ Validated("validateTasks") =>
         /\ (outcome = "invalid" /\ CycleError \in Range(errors)) <=> Cyclic
         /\ (outcome = "valid") <=> ~Cyclic
    /\ Validated("validateTasksEarlier") =>
         /\ (outcome = "invalid"
             /\ "Il y a un cycle dans les dependances des taches" \in Range(errors))
            <=> Cyclic
         /\ (outcome = "valid") <=> ~Cyclic

\* validateTasks reported the cycle of a three-task list whose first task
\* is on no cycle
C11_Witness ==
  /\ Validated("validateTasks")
  /\ errors = <<CycleError>>
  /\ Len(tasks) = 3
  /\ StructurallySound /\ ReferentiallySound
  /\ tasks[1].id \notin ReachedFrom(tasks[1].id)
  /\ Len(tasks[1].predecessors) > 0

\* C12: validateTasks reports the list invalid whenever some task lists a
\* predecessor id that no task of the list has, and whenever some task lists
\* its own id; utils.ts names each of the two problems in its errors
C12_ReferentialRejection ==
  /\ (Validated("validateTasks") \/ Validated("validateTasksEarlier")) =>
       ((HasDanglingPredecessor \/ HasSelfReference) => outcome = "invalid")
  /\ Validated("validateTasks") =>
       /\ HasDanglingPredecessor => "Predecesseur inexistant" \in Range(errors)
       /\ HasSelfReference =>
            "Ne peut pas etre son propre predecesseur" \in Range(errors)
  /\ Validated("validateTasksEarlier") =>
       (HasDanglingPredecessor => "Predecesseur inexistant" \in Range(errors))

\* validateTasks found only a missing predecessor and a self-reference in a
\* list
C12_Witness ==
  /\ Validated("validateTasks")
  /\ Len(errors) = 2
  /\ Range(errors) = {"Predecesseur inexistant",
                      "Ne peut pas etre son propre predecesseur"}
  /\ HasDanglingPredecessor /\ HasSelfReference

\* one of the calculatePertData / calculateGanttData variants was called
Calculated ==
  /\ outcome \in {"thrown", "returned"}
  /\ callee \in {"pertKahn", "pertCalculator", "pertDfs",
                 "ganttPasses", "ganttSinglePass"}

\* C13 as claimed: when calculateGanttData or a calculatePertData variant is
\* called on a list whose predecessor relation contains a cycle, it throws
\* and no tasks, criticalPath or projectDuration are produced
C13_NoGarbageOnCycle ==
  (Calculated /\ Cyclic) => (outcome = "thrown" /\ result = NoData)

\* C14 as claimed: on a list of length 0 validateTasks reports invalid and
\* calculatePertData and calculateGanttData throw instead of returning
C14_EmptyInputIsFatal ==
  Len(tasks) = 0 =>
    /\ Validated("validateTasks") => outcome = "invalid"
    /\ Calculated => (outcome = "thrown" /\ result = NoData)

\* a non-empty list that is well-formed whatever its durations are: ids
\* non-empty and distinct, names non-empty, references sound, no cycle
WellFormedButDurations ==
  /\ Len(tasks) > 0
  /\ UniqueIds
  /\ \A i \in 1..Len(tasks) : tasks[i].name # ""
  /\ ReferentiallySound
  /\ ~Cyclic

\* the validation inside calculatePertData (PertCalculator variant) let the
\* list through: the call returned, or threw something else than
\* 'Validation echouee'
PassedPertValidation ==
  outcome = "returned" \/ errors # <<"Validation echouee">>

\* C15 as claimed: an otherwise well-formed list is accepted by
\* validateTasks and by the validation inside calculatePertData exactly when
\* no duration is negative; a duration of 0 is accepted
C15_ZeroDurationPermitted ==
  WellFormedButDurations =>
    LET noneNegative == \A i \in 1..Len(tasks) : tasks[i].duration >= 0
    IN /\ Validated("validateTasks") => (outcome = "valid" <=> noneNegative)
       /\ (callee = "pertCalculator" /\ outcome # "none") =>
            (PassedPertValidation <=> noneNegative)

\* C15 as amended: an otherwise well-formed list is accepted by
\* validateTasks and by the validation inside calculatePertData exactly when
\* every duration is greater than 0; a duration of 0 is rejected like a
\* negative one
C15_ZeroDurationRejected ==
  WellFormedButDurations =>
    LET allPositive == \A i \in 1..Len(tasks) : tasks[i].duration > 0
    IN /\ Validated("validateTasks") =>
            /\ outcome = "valid" <=> allPositive
            /\ ~allPositive =>
                 Range(errors) = {"Duree invalide (doit etre > 0)"}
       /\ (callee = "pertCalculator" /\ outcome # "none") =>
            (PassedPertValidation <=> allPositive)

\* calculatePertData refused a three-task list whose only flaw is a
\* zero-duration task that follows another task
C15_Witness ==
  /\ callee = "pertCalculator"
  /\ outcome = "thrown"
  /\ errors = <<"Validation echouee">>
  /\ WellFormedButDurations
  /\ Len(tasks) = 3
  /\ \E i \in 1..3 : tasks[i].duration = 0 /\ Len(tasks[i].predecessors) > 0

\* C16 as claimed: a call of calculatePertData (PertCalculator variant) or
\* of calculateGanttData leaves the caller's list as it was: no task object
\* has gained or changed a computed field and the order is the same
C16_InputUnchanged ==
  [][callee' \in {"pertCalculator", "ganttPasses", "ganttSinglePass"}
       => tasks' = tasks]_vars

\* the six fields a computation sets
AllSixSet(t) ==
  /\ t.earliestStart # Undefined /\ t.earliestFinish # Undefined
  /\ t.latestStart # Undefined /\ t.latestFinish # Undefined
  /\ t.slack # Undefined /\ t.isCritical # Undefined

NoneOfSixSet(t) ==
  /\ t.earliestStart = Undefined /\ t.earliestFinish = Undefined
  /\ t.latestStart = Undefined /\ t.latestFinish = Undefined
  /\ t.slack = Undefined /\ t.isCritical = Undefined

\* C17: whenever calculatePertData (PertCalculator variant) returns, every
\* task of the list is returned with all six computed fields set; whenever
\* it throws (empty list, failed validation, cycle found by the sorter), no
\* task object has any of the six fields written
C17_AllOrNothing ==
  callee = "pertCalculator" =>
    /\ outcome = "returned" =>
         /\ Len(result.tasks) = Len(tasks)
         /\ \A t \in Range(result.tasks) : AllSixSet(t)
         /\ \A i \in 1..Len(tasks) : AllSixSet(tasks[i])
    /\ outcome = "thrown" =>
         /\ result = NoData
         /\ \A i \in 1..Len(tasks) : NoneOfSixSet(tasks[i])

\* the sorter threw on a list of which it had sorted the first task before
\* it met the cycle of the two others
C17_Witness ==
  /\ callee = "pertCalculator"
  /\ outcome = "thrown"
  /\ errors = <<"Cycle detecte dans les dependances">>
  /\ Len(tasks) = 3
  /\ Len(tasks[1].predecessors) = 0
  /\ tasks[2].predecessors = <<1, 3>>
  /\ tasks[3].predecessors = <<2>>

\* the returned list holds every task of the caller's list exactly once
ReturnsEveryTaskOnce ==
  /\ Len(result.tasks) = Len(tasks)
  /\ \A i \in 1..Len(tasks) :
        Cardinality({k \in 1..Len(result.tasks) :
                       result.tasks[k].id = tasks[i].id}) = 1

\* every returned task comes after all of its predecessors
PredecessorsComeFirst ==
  \A k \in 1..Len(result.tasks) :
     \A p \in Range(result.tasks[k].predecessors) :
        \E l \in 1..(k - 1) : result.tasks[l].id = p

\* C18: for every list with unique ids and an acyclic, referentially sound
\* predecessor relation, topologicalSortCorrect and
\* PertCalculator.topologicalSort (whose result is the returned task list)
\* return every task exactly once, each after all of its predecessors
C18_KahnOrder ==
  /\ (callee = "pertKahn" /\ outcome # "none") => outcome = "returned"
  /\ (callee = "pertCalculator" /\ outcome # "none" /\ PositiveDurations) =>
       outcome = "returned"
  /\ ReturnedByPert => (ReturnsEveryTaskOnce /\ PredecessorsComeFirst)

\* the sorter moved the last task of a three-task list to the front
C18_Witness ==
  /\ Returned("pertKahn")
  /\ Len(tasks) = 3
  /\ result.tasks[1].id = tasks[3].id
  /\ Len(result.tasks[3].predecessors) = 2

\* C19 as claimed: for every acyclic, referentially sound list, the list
\* that the DFS-based topologicalSort hands to the passes of
\* calculateGanttData (the returned task list) has every task after all of
\* its predecessors
C19_GanttOrder ==
  (Returned("ganttPasses") \/ Returned("ganttSinglePass")) =>
    (ReturnsEveryTaskOnce /\ PredecessorsComeFirst)

\* C20: for every referentially sound list with unique ids, the Kahn
\* sorters throw their cycle error if the predecessor relation contains a
\* cycle and return every task otherwise; a shortened list is never returned
C20_KahnCycleCheck ==
  (UniqueIds /\ ~HasDanglingPredecessor) =>
    /\ (callee = "pertKahn" /\ outcome # "none") =>
         /\ (outcome = "thrown"
             /\ errors = <<"Cycle detecte dans les dependances des taches">>)
            <=> Cyclic
         /\ outcome = "returned" <=> ~Cyclic
         /\ outcome = "returned" => ReturnsEveryTaskOnce
    /\ (callee = "pertCalculator" /\ outcome # "none"
        /\ Len(tasks) > 0 /\ StructurallySound) =>
         /\ (outcome = "thrown"
             /\ errors = <<"Cycle detecte dans les dependances">>)
            <=> Cyclic
         /\ outcome = "returned" <=> ~Cyclic
         /\ outcome = "returned" => ReturnsEveryTaskOnce

\* topologicalSortCorrect threw on a list of which it had sorted two tasks
\* before it met the self-reference of the third
C20_Witness ==
  /\ callee = "pertKahn"
  /\ outcome = "thrown"
  /\ UniqueIds /\ ~HasDanglingPredecessor
  /\ Len(tasks) = 3
  /\ Len(tasks[1].predecessors) = 0
  /\ tasks[2].predecessors = <<1>>
  /\ tasks[3].predecessors = <<2, 3>>

\* a cycle error came out of validateTasks (utils.ts or the earlier utils)
\* or of the sorter of the PertCalculator variant
CycleErrorRaised ==
  \/ Validated("validateTasks") /\ CycleError \in Range(errors)
  \/ /\ Validated("validateTasksEarlier")
     /\ "Il y a un cycle dans les dependances des taches" \in Range(errors)
  \/ /\ callee = "pertCalculator" /\ outcome = "thrown"
     /\ errors = <<"Cycle detecte dans les dependances">>

\* C21 as claimed: every cycle error of the validator or of
\* PertCalculator.topologicalSort names at least one task id that lies on a
\* cycle of the predecessor relation
C21_CycleErrorNamesTask ==
  CycleErrorRaised =>
    \E x \in Range(errorTaskIds) : x \in TaskIds /\ x \in ReachedFrom(x)

\* C27 as claimed: whenever calculatePertData (PertCalculator variant) throws
\* its cycle error, the predecessor relation of the list contains a cycle
C27_CycleErrorOnlyForCycles ==
  (callee = "pertCalculator" /\ outcome = "thrown"
   /\ errors = <<"Cycle detecte dans les dependances">>) => Cyclic

\* the positions of the caller's list, and the (task, predecessor entry)
\* positions, that satisfy a condition
TasksWhere(P(_)) == Cardinality({i \in 1..Len(tasks) : P(i)})

EntriesWhere(P(_, _)) ==
  Cardinality(UNION {{<<i, e>> : e \in {x \in 1..Len(tasks[i].predecessors) : P(i, x)}} :
                       i \in 1..Len(tasks)})

\* C22: for every non-empty list, the errors of one call of validateTasks
\* (utils.ts) hold one entry for each task with a missing id, each task whose
\* id an earlier task has, each task with a missing name, each task with an
\* invalid duration, and each predecessor entry that names no task or names
\* its own task
C22_AggregatedValidation ==
  (Validated("validateTasks") /\ Len(tasks) > 0) =>
    /\ Occurrences(errors, "ID manquant ou invalide")
         = TasksWhere(LAMBDA i : tasks[i].id = 0)
    /\ Occurrences(errors, "ID duplique")
         = TasksWhere(LAMBDA i : /\ tasks[i].id # 0
                                 /\ \E l \in 1..(i - 1) : tasks[l].id = tasks[i].id)
    /\ Occurrences(errors, "Nom manquant ou invalide")
         = TasksWhere(LAMBDA i : tasks[i].name = "")
    /\ Occurrences(errors, "Duree invalide (doit etre > 0)")
         = TasksWhere(LAMBDA i : tasks[i].duration <= 0)
    /\ Occurrences(errors, "Predecesseur inexistant")
         = EntriesWhere(LAMBDA i, e :
             tasks[i].predecessors[e] \notin (TaskIds \ {0}))
    /\ Occurrences(errors, "Ne peut pas etre son propre predecesseur")
         = EntriesWhere(LAMBDA i, e : tasks[i].predecessors[e] = tasks[i].id)

\* validateTasks reported problems of three kinds at once, four or more in all
C22_Witness ==
  /\ Validated("validateTasks")
  /\ Len(errors) >= 4
  /\ {"ID duplique", "Nom manquant ou invalide", "Predecesseur inexistant"}
       \subseteq Range(errors)

\* a list without its repeated predecessor entries (the first entry of each
\* id is kept) and without computed fields
WithoutRepeats(xs) ==
  LET firsts == {e \in 1..Len(xs) : \A l \in 1..(e - 1) : xs[l] # xs[e]}
      at == SortedSeq(firsts)
  IN [e \in 1..Len(at) |-> xs[at[e]]]

Unannotated(l) ==
  [i \in 1..Len(l) |->
     NewTask(l[i].id, l[i].name, l[i].duration, l[i].predecessors)]

DuplicatesRemoved(l) ==
  [i \in 1..Len(l) |->
     NewTask(l[i].id, l[i].name, l[i].duration,
             WithoutRepeats(l[i].predecessors))]

\* two results list the same tasks in the same order with the same computed
\* fields, the same criticalPath and the same projectDuration
ComputedFields(t) ==
  <<t.id, t.start, t.end, t.earliestStart, t.earliestFinish, t.latestStart,
    t.latestFinish, t.slack, t.isCritical>>

SameSchedule(a, b) ==
  /\ Len(a.tasks) = Len(b.tasks)
  /\ \A k \in 1..Len(a.tasks) : ComputedFields(a.tasks[k]) = ComputedFields(b.tasks[k])
  /\ a.criticalPath = b.criticalPath
  /\ a.projectDuration = b.projectDuration

\* C23: for every valid list, calculatePertData (both Kahn variants) returns
\* for a list with repeated predecessor entries what it returns for the list
\* with the repeats removed: the same order, computed fields, criticalPath
\* and projectDuration
C23_RepeatedPredecessorsCountOnce ==
  (WellFormedButDurations /\ \A i \in 1..Len(tasks) : tasks[i].duration >= 0) =>
    /\ (callee = "pertKahn" /\ outcome # "none") =>
         /\ outcome = "returned"
         /\ SameSchedule(result,
                         calculatePertDataKahn(DuplicatesRemoved(tasks)).data)
    /\ (callee = "pertCalculator" /\ outcome # "none" /\ StructurallySound) =>
         /\ outcome = "returned"
         /\ SameSchedule(result,
                         calculatePertDataCalculator(DuplicatesRemoved(tasks)).data)

\* the calculator scheduled a three-task list whose last task lists its two
\* predecessors and then the first of them again
C23_Witness ==
  /\ Returned("pertCalculator")
  /\ WellFormedButDurations
  /\ Len(tasks) = 3
  /\ tasks[3].predecessors = <<1, 2, 1>>
  /\ tasks[2].predecessors = <<1>>

\* the result gives every task the computed fields that the same engine gives
\* it on the list without pre-existing computed fields, and the same
\* projectDuration
SameFieldsPerTask(a, b) ==
  /\ {ComputedFields(t) : t \in Range(a.tasks)} = {ComputedFields(t) : t \in Range(b.tasks)}
  /\ a.projectDuration = b.projectDuration

\* C26 as claimed: computed fields already present on a valid input do not
\* influence what calculateGanttData and calculatePertData compute
C26_PreExistingFieldsIgnored ==
  /\ Returned("ganttPasses") =>
       SameFieldsPerTask(result, calculateGanttData(Unannotated(tasks)).data)
  /\ Returned("pertKahn") =>
       SameFieldsPerTask(result, calculatePertDataKahn(Unannotated(tasks)).data)

\* what validateTasks, as bundled with the page, reports for a list
ReportedBy(b, list) ==
  IF b.validator = "earlier" THEN validateTasksEarlier(list)
  ELSE validateTasks(list)

\* C24: when validateTasks reports the saved list invalid, generateDiagrams
\* calls neither calculateGanttData nor calculatePertData, leaves diagramData,
\* diagramType and appState as they were (and schedules no transition), and
\* sets error to the validation messages joined by newlines
C24_ValidationGatesComputation ==
  [][(handler' = "handleSaveForm" /\ ~ReportedBy(build, tasks').valid) =>
       /\ called' = {}
       /\ diagramData' = diagramData
       /\ diagramType' = diagramType
       /\ appState' = appState
       /\ timers' = timers
       /\ error' = Some(Join(ReportedBy(build, tasks').errors, 1))]_vars

\* a result is displayed or pending, then a cyclic list was saved: the error
\* is shown and the earlier result stays
C24_Witness ==
  /\ handler = "handleSaveForm"
  /\ ~ReportedBy(build, tasks).valid
  /\ error \notin {Undefined, Some("")}
  /\ diagramData # Undefined
  /\ diagramType = "gantt"

\* C25 as claimed: when validateTasks of utils.ts finds no error in the saved
\* list, the (first) page computes the schedule, sets diagramData to it,
\* clears error to null and appState becomes RESULT
C25_ValidInputReachesResult ==
  [][(handler' = "handleSaveForm" /\ build.page = "direct"
      /\ validateTasks(tasks').valid) =>
       /\ called' # {}
       /\ diagramData' =
            Some(IF diagramType' = "gantt" THEN calculateGanttData(tasks').data
                 ELSE calculatePertDataKahn(tasks').data)
       /\ error' = Undefined
       /\ appState' = "result"]_vars

\* C29 as claimed: in the page with delayed transitions appState = RESULT
\* implies that diagramData is not null
C29_ResultHasData ==
  build.page = "delayed" => (appState = "result" => diagramData # Undefined)

\* some task has the same id at two places of its predecessors
ListsAnIdTwice ==
  \E i \in 1..Len(tasks) :
     \E a, b \in 1..Len(tasks[i].predecessors) :
        a # b /\ tasks[i].predecessors[a] = tasks[i].predecessors[b]

\* C30 as claimed: after any sequence of the form's handlers every
\* predecessor id is the id of a task of the list, no task lists itself, no
\* predecessor id is listed twice and the list is not empty
C30_FormKeepsListSound ==
  /\ ~HasDanglingPredecessor
  /\ ~HasSelfReference
  /\ ~ListsAnIdTwice
  /\ Len(tasks) > 0

\* C30, amended: the list is never empty and every predecessor id is the id
\* of a task of the list; no task lists its own id while the ids of the list
\* are pairwise distinct; no handler adds a second entry of an id to a
\* predecessors list
C30_FormKeepsReferences ==
  /\ [](/\ Len(tasks) > 0
        /\ ~HasDanglingPredecessor
        /\ UniqueIds => ~HasSelfReference)
  /\ [][~ListsAnIdTwice => ~ListsAnIdTwice']_vars

\* the first of two initial tasks was removed, a task was added, and the
\* added task was given the remaining one as its predecessor
C30_Witness ==
  /\ Len(tasks) = 2
  /\ tasks[1].id = 2 /\ tasks[1].name = "task"
  /\ tasks[2].id = 1 /\ tasks[2].name = "" /\ tasks[2].duration = 2
  /\ tasks[1].predecessors = <<>>
  /\ tasks[2].predecessors = <<2>>

\* the metaData of an activity carries the six values of the result's task
AgreesWithTask(m, t) ==
  /\ Some(m.earliestStart) = t.earliestStart
  /\ Some(m.earliestFinish) = t.earliestFinish
  /\ Some(m.latestStart) = t.latestStart
  /\ Some(m.latestFinish) = t.latestFinish
  /\ Some(m.totalSlack) = t.slack
  /\ Some(m.isCritical) = t.isCritical

\* C28: for every valid list, the metaData that PertChart computes for each
\* task's activity equals the six fields calculatePertData computed for the
\* task, and both relaxation loops end before (number of events)^2 iterations
C28_ChartAgreesWithEngine ==
  (chart # NoChart /\ WellFormedButDurations /\ PositiveDurations) =>
    /\ Len(chart.metaData) = Len(result.tasks)
    /\ \A k \in 1..Len(chart.metaData) :
          AgreesWithTask(chart.metaData[k], ResultTask(chart.metaData[k].id))
    /\ chart.eoIterations < chart.maxIterations
    /\ chart.loIterations < chart.maxIterations

\* a chart of three tasks in a chain, where the forward loop needed more
\* than one sweep to settle and one more to see no change
C28_Witness ==
  /\ chart # NoChart
  /\ WellFormedButDurations /\ PositiveDurations
  /\ Len(chart.metaData) = 3
  /\ chart.eoIterations >= 3
  /\ \E k \in 1..3 : ~chart.metaData[k].isCritical

====
